---- MODULE Spec2Model ----
(***************************************************************************)
(* A model of the ETL pipeline of TUB_DIA_Project_WS25:                    *)
(*   src/ETL_pipeline/ingest_changes.py    (change flow)                   *)
(*   src/ETL_pipeline/ingest_timetables.py (planned flow)                  *)
(*                                                                         *)
(* Representation.                                                         *)
(*  - A Python/SQL optional value is a sequence of length <= 1: None (SQL  *)
(*    NULL) is <<>> and a present value v is <<v>>.                        *)
(*  - A Python string whose characters matter is a sequence of one-        *)
(*    character strings.                                                   *)
(*  - A time key is the 12-digit integer YYYYMMDDHHMM.  It does not fit a  *)
(*    32-bit integer, so it is kept as two decimal limbs:                  *)
(*    [ymd |-> YYYYMMDD, hm |-> HHMM], standing for ymd * 10^4 + hm.       *)
(*  - What a function does is an outcome: it returns a value or raises.    *)
(***************************************************************************)
EXTENDS Integers, Sequences, FiniteSets, TLC

VARIABLES
  fact,        \* fact_train_movement: natural key -> row or NoRow
  last,        \* the last upsert statement executed and the row it met
  rp,          \* a snapshot's rows being applied a first and a second time
  sm,          \* the station catalog and the maps build_station_maps returned
  lk,          \* the last station label resolved and what it resolved to
  dq,          \* arguments of a call of compute_delay_minutes
  dres,        \* what that call did
  fsys,        \* what a run is given: the flow, the week folder, the batch size
  db,          \* the store as the run's open transaction sees it
  cdb,         \* the committed store
  run          \* the locals of ingest_changes / ingest_timetables and where it is

mergeVars == <<fact, last, rp>>
delayVars == <<dq, dres>>
stationVars == <<sm, lk>>
runVars == <<fsys, db, cdb, run>>
vars == <<fact, last, rp, sm, lk, dq, dres, fsys, db, cdb, run>>

-----------------------------------------------------------------------------
(* Optional values, outcomes, strings                                      *)

None == <<>>
Some(v) == <<v>>
IsSet(o) == o # None
Val(o) == o[1]

\* SQL COALESCE(a, b)
COALESCE(a, b) == IF a # None THEN a ELSE b

Return(v) == [kind |-> "return", val |-> v]
Raise(e) == [kind |-> "raise", val |-> e]
Returned(o) == o.kind = "return"

Digits == {"0", "1", "2", "3", "4", "5", "6", "7", "8", "9"}

DigitVal(c) ==
  CASE c = "0" -> 0 [] c = "1" -> 1 [] c = "2" -> 2 [] c = "3" -> 3
    [] c = "4" -> 4 [] c = "5" -> 5 [] c = "6" -> 6 [] c = "7" -> 7
    [] c = "8" -> 8 [] c = "9" -> 9

DigitChar(n) ==
  CASE n = 0 -> "0" [] n = 1 -> "1" [] n = 2 -> "2" [] n = 3 -> "3"
    [] n = 4 -> "4" [] n = 5 -> "5" [] n = 6 -> "6" [] n = 7 -> "7"
    [] n = 8 -> "8" [] n = 9 -> "9"

\* str.isdigit(): at least one character and every character a digit.  The
\* attribute texts used here are ASCII, where the digits of isdigit() are the
\* decimal digits that int() reads.
isdigit(s) == Len(s) > 0 /\ \A i \in 1..Len(s) : s[i] \in Digits

\* str.lstrip(ch): drop every leading occurrence of ch
RECURSIVE lstrip(_, _)
lstrip(s, ch) ==
  IF Len(s) > 0 /\ s[1] = ch THEN lstrip(Tail(s), ch) ELSE s

\* the value of a string of digits
RECURSIVE DigitsValue(_)
DigitsValue(s) ==
  IF Len(s) = 0 THEN 0
  ELSE 10 * DigitsValue(SubSeq(s, 1, Len(s) - 1)) + DigitVal(s[Len(s)])

\* Python int(s) on a string: one optional sign, then digits; anything else
\* raises ValueError.  (Surrounding whitespace and underscores between
\* digits, which int() also accepts, are outside the alphabets used here.)
int(s) ==
  IF isdigit(s) THEN Return(DigitsValue(s))
  ELSE IF Len(s) > 1 /\ s[1] = "-" /\ isdigit(Tail(s))
    THEN Return(0 - DigitsValue(Tail(s)))
  ELSE IF Len(s) > 1 /\ s[1] = "+" /\ isdigit(Tail(s))
    THEN Return(DigitsValue(Tail(s)))
  ELSE Raise("ValueError")

\* every string over alphabet A of length at most n
StringsUpTo(A, n) == UNION { [1..k -> A] : k \in 0..n }

-----------------------------------------------------------------------------
(* datetime                                                                *)

IsLeap(y) == (y % 4 = 0) /\ ((y % 100 # 0) \/ (y % 400 = 0))

DaysInMonth(y, m) ==
  IF m = 2 THEN (IF IsLeap(y) THEN 29 ELSE 28)
  ELSE IF m \in {4, 6, 9, 11} THEN 30 ELSE 31

RECURSIVE DaysBeforeMonth(_, _)
DaysBeforeMonth(y, m) ==
  IF m <= 1 THEN 0 ELSE DaysBeforeMonth(y, m - 1) + DaysInMonth(y, m - 1)

DaysBeforeYear(y) ==
  (y - 1) * 365 + ((y - 1) \div 4) - ((y - 1) \div 100) + ((y - 1) \div 400)

\* the fields datetime(...) accepts; any other raises ValueError
ValidDatetime(y, mo, d, h, mi) ==
  /\ y \in 1..9999
  /\ mo \in 1..12
  /\ d >= 1 /\ d <= DaysInMonth(y, mo)
  /\ h \in 0..23
  /\ mi \in 0..59

datetime(y, mo, d, h, mi) ==
  IF ValidDatetime(y, mo, d, h, mi)
  THEN Return([year |-> y, month |-> mo, day |-> d, hour |-> h, minute |-> mi])
  ELSE Raise("ValueError")

\* date.toordinal() in minutes plus the time of day: the scale on which
\* datetime subtraction works
OrdinalMinutes(dt) ==
  (DaysBeforeYear(dt.year) + DaysBeforeMonth(dt.year, dt.month) + dt.day) * 1440
    + dt.hour * 60 + dt.minute

parse_yymmddhhmm(s) ==
  IF Len(s) # 10 \/ ~isdigit(s) THEN Raise("ValueError")
  ELSE datetime(2000 + DigitsValue(SubSeq(s, 1, 2)),
                DigitsValue(SubSeq(s, 3, 4)),
                DigitsValue(SubSeq(s, 5, 6)),
                DigitsValue(SubSeq(s, 7, 8)),
                DigitsValue(SubSeq(s, 9, 10)))

\* int(dt.strftime("%Y%m%d%H%M"))
time_key(dt) ==
  [ymd |-> dt.year * 10000 + dt.month * 100 + dt.day,
   hm  |-> dt.hour * 100 + dt.minute]

\* datetime.strptime(str(key), "%Y%m%d%H%M") for a 12-digit key
strptime_key(k) ==
  datetime(k.ymd \div 10000, (k.ymd \div 100) % 100, k.ymd % 100,
           k.hm \div 100, k.hm % 100)

safe_timekey_from_attr(v) ==
  IF IsSet(v) /\ Len(Val(v)) > 0 /\ isdigit(Val(v)) /\ Len(Val(v)) = 10
  THEN LET dt == parse_yymmddhhmm(Val(v))
       IN  IF Returned(dt) THEN Return(Some(time_key(dt.val))) ELSE dt
  ELSE Return(None)

\* A slip the delay rule could have: the two keys subtracted as integers
compute_delay_minutes_KeyDiff(pt_key, ct_key, dc) ==
  IF IsSet(dc) /\ Len(Val(dc)) > 0 /\ isdigit(lstrip(Val(dc), "-"))
  THEN LET r == int(Val(dc)) IN IF Returned(r) THEN Return(Some(r.val)) ELSE r
  ELSE IF ~IsSet(pt_key) \/ ~IsSet(ct_key) THEN Return(None)
  ELSE Return(Some((Val(ct_key).ymd - Val(pt_key).ymd) * 10000
                     + Val(ct_key).hm - Val(pt_key).hm))

\* The keys are never 0, so "not pt_key" is "pt_key is None".  The two
\* datetimes carry whole minutes, so total_seconds() / 60.0 is whole and
\* int(round(.)) leaves it as it is.
compute_delay_minutes(pt_key, ct_key, dc) ==
  IF IsSet(dc) /\ Len(Val(dc)) > 0 /\ isdigit(lstrip(Val(dc), "-"))
  THEN LET r == int(Val(dc)) IN IF Returned(r) THEN Return(Some(r.val)) ELSE r
  ELSE IF ~IsSet(pt_key) \/ ~IsSet(ct_key) THEN Return(None)
  ELSE LET pt_dt == strptime_key(Val(pt_key))
           ct_dt == strptime_key(Val(ct_key))
       IN  IF ~Returned(pt_dt) THEN pt_dt
           ELSE IF ~Returned(ct_dt) THEN ct_dt
           ELSE Return(Some(OrdinalMinutes(ct_dt.val) - OrdinalMinutes(pt_dt.val)))

-----------------------------------------------------------------------------
(* Clock: the instants the sample timestamps are taken from                *)

\* the datetime of an instant given in minutes on the ordinal scale
DatetimeOf(t) ==
  LET n  == t \div 1440
      y  == CHOOSE yy \in 2000..2099 :
              DaysBeforeYear(yy) < n /\ n <= DaysBeforeYear(yy + 1)
      r  == n - DaysBeforeYear(y)
      mo == CHOOSE mm \in 1..12 :
              DaysBeforeMonth(y, mm) < r
                /\ r <= DaysBeforeMonth(y, mm) + DaysInMonth(y, mm)
  IN  [year |-> y, month |-> mo, day |-> r - DaysBeforeMonth(y, mo),
       hour |-> (t % 1440) \div 60, minute |-> t % 60]

\* 2025-08-31 23:58
BaseInstant ==
  OrdinalMinutes([year |-> 2025, month |-> 8, day |-> 31, hour |-> 23, minute |-> 58])

\* minutes after BaseInstant: the same minute, the next, across the hour, the
\* day and the month boundary (all at once at +2), an hour and a day later
InstantOffsets == {0, 1, 2, 63, 1443}

Instants == { BaseInstant + k : k \in InstantOffsets }

-----------------------------------------------------------------------------
(* fact_train_movement and the two upsert statements                       *)

\* the row the change flow hands to SQL_UPSERT_FACT_CHANGES for one <ar>/<dp>
\* element ev of a stop whose train resolved to train_key
ChangesRow(train_key, ev) ==
  LET pt_key == safe_timekey_from_attr(ev.pt)
      ct_key == safe_timekey_from_attr(ev.ct)
  IN  IF ~Returned(pt_key) THEN pt_key
      ELSE IF ~Returned(ct_key) THEN ct_key
      ELSE LET delay == compute_delay_minutes(pt_key.val, ct_key.val, ev.dc)
           IN  IF ~Returned(delay) THEN delay
               ELSE Return([present |-> TRUE,
                            train_key |-> train_key,
                            planned_time_key |-> pt_key.val,
                            changed_time_key |-> ct_key.val,
                            event_status |-> ev.cs,
                            planned_platform |-> ev.pp,
                            changed_platform |-> ev.cp,
                            line |-> ev.l,
                            planned_path |-> ev.ppth,
                            delay_minutes |-> delay.val,
                            is_cancelled |-> (ev.cs = Some("c"))])

\* the row the planned flow hands to SQL_UPSERT_FACT_PLANNED: the statement
\* itself supplies NULL for the live columns and false for is_cancelled
PlannedRow(train_key, ev) ==
  LET pt_dt == IF IsSet(ev.pt) /\ Len(Val(ev.pt)) > 0
               THEN parse_yymmddhhmm(Val(ev.pt)) ELSE Return(None)
  IN  IF ~Returned(pt_dt) THEN pt_dt
      ELSE Return([present |-> TRUE,
                   train_key |-> train_key,
                   planned_time_key |->
                     IF pt_dt.val = None THEN None ELSE Some(time_key(pt_dt.val)),
                   changed_time_key |-> None,
                   event_status |-> None,
                   planned_platform |-> ev.pp,
                   changed_platform |-> None,
                   line |-> ev.l,
                   planned_path |-> ev.ppth,
                   delay_minutes |-> None,
                   is_cancelled |-> FALSE])

\* SQL_UPSERT_FACT_CHANGES with is_cancelled taken from the incoming row alone
SQL_UPSERT_FACT_CHANGES_CancelOverwrite(old, inc, unk) ==
  IF ~old.present THEN inc
  ELSE [present |-> TRUE,
        train_key |-> IF inc.train_key = unk THEN old.train_key ELSE inc.train_key,
        planned_time_key |-> COALESCE(old.planned_time_key, inc.planned_time_key),
        changed_time_key |-> COALESCE(inc.changed_time_key, old.changed_time_key),
        event_status |-> COALESCE(inc.event_status, old.event_status),
        planned_platform |-> COALESCE(old.planned_platform, inc.planned_platform),
        changed_platform |-> COALESCE(inc.changed_platform, old.changed_platform),
        line |-> COALESCE(inc.line, old.line),
        planned_path |-> COALESCE(inc.planned_path, old.planned_path),
        delay_minutes |-> COALESCE(inc.delay_minutes, old.delay_minutes),
        is_cancelled |-> inc.is_cancelled]

\* SQL_UPSERT_FACT_CHANGES without the CASE that guards the train key
SQL_UPSERT_FACT_CHANGES_TrainOverwrite(old, inc, unk) ==
  IF ~old.present THEN inc
  ELSE [present |-> TRUE,
        train_key |-> inc.train_key,
        planned_time_key |-> COALESCE(old.planned_time_key, inc.planned_time_key),
        changed_time_key |-> COALESCE(inc.changed_time_key, old.changed_time_key),
        event_status |-> COALESCE(inc.event_status, old.event_status),
        planned_platform |-> COALESCE(old.planned_platform, inc.planned_platform),
        changed_platform |-> COALESCE(inc.changed_platform, old.changed_platform),
        line |-> COALESCE(inc.line, old.line),
        planned_path |-> COALESCE(inc.planned_path, old.planned_path),
        delay_minutes |-> COALESCE(inc.delay_minutes, old.delay_minutes),
        is_cancelled |-> (old.is_cancelled \/ inc.is_cancelled)]

\* SQL_UPSERT_FACT_CHANGES with the COALESCE arguments of planned_platform
\* in the order the live columns use
SQL_UPSERT_FACT_CHANGES_PlannedOverwrite(old, inc, unk) ==
  IF ~old.present THEN inc
  ELSE [present |-> TRUE,
        train_key |-> IF inc.train_key = unk THEN old.train_key ELSE inc.train_key,
        planned_time_key |-> COALESCE(old.planned_time_key, inc.planned_time_key),
        changed_time_key |-> COALESCE(inc.changed_time_key, old.changed_time_key),
        event_status |-> COALESCE(inc.event_status, old.event_status),
        planned_platform |-> COALESCE(inc.planned_platform, old.planned_platform),
        changed_platform |-> COALESCE(inc.changed_platform, old.changed_platform),
        line |-> COALESCE(inc.line, old.line),
        planned_path |-> COALESCE(inc.planned_path, old.planned_path),
        delay_minutes |-> COALESCE(inc.delay_minutes, old.delay_minutes),
        is_cancelled |-> (old.is_cancelled \/ inc.is_cancelled)]

\* SQL_UPSERT_FACT_CHANGES with the COALESCE arguments of delay_minutes in
\* the order the planned columns use
SQL_UPSERT_FACT_CHANGES_DelayKept(old, inc, unk) ==
  IF ~old.present THEN inc
  ELSE [present |-> TRUE,
        train_key |-> IF inc.train_key = unk THEN old.train_key ELSE inc.train_key,
        planned_time_key |-> COALESCE(old.planned_time_key, inc.planned_time_key),
        changed_time_key |-> COALESCE(inc.changed_time_key, old.changed_time_key),
        event_status |-> COALESCE(inc.event_status, old.event_status),
        planned_platform |-> COALESCE(old.planned_platform, inc.planned_platform),
        changed_platform |-> COALESCE(inc.changed_platform, old.changed_platform),
        line |-> COALESCE(inc.line, old.line),
        planned_path |-> COALESCE(inc.planned_path, old.planned_path),
        delay_minutes |-> COALESCE(old.delay_minutes, inc.delay_minutes),
        is_cancelled |-> (old.is_cancelled \/ inc.is_cancelled)]

\* SQL_UPSERT_FACT_CHANGES with planned_platform filled from the incoming
\* changed_platform (a column mix-up)
SQL_UPSERT_FACT_CHANGES_ColumnMixup(old, inc, unk) ==
  IF ~old.present THEN inc
  ELSE [present |-> TRUE,
        train_key |-> IF inc.train_key = unk THEN old.train_key ELSE inc.train_key,
        planned_time_key |-> COALESCE(old.planned_time_key, inc.planned_time_key),
        changed_time_key |-> COALESCE(inc.changed_time_key, old.changed_time_key),
        event_status |-> COALESCE(inc.event_status, old.event_status),
        planned_platform |-> COALESCE(old.planned_platform, inc.changed_platform),
        changed_platform |-> COALESCE(inc.changed_platform, old.changed_platform),
        line |-> COALESCE(inc.line, old.line),
        planned_path |-> COALESCE(inc.planned_path, old.planned_path),
        delay_minutes |-> COALESCE(inc.delay_minutes, old.delay_minutes),
        is_cancelled |-> (old.is_cancelled \/ inc.is_cancelled)]

\* INSERT ... ON CONFLICT (natural key) DO UPDATE of the change flow: old is
\* the row stored under the incoming row's natural key (NoRow when there is
\* none), inc the incoming row (EXCLUDED), unk the key of the unknown train
SQL_UPSERT_FACT_CHANGES(old, inc, unk) ==
  IF ~old.present THEN inc
  ELSE [present |-> TRUE,
        train_key |-> IF inc.train_key = unk THEN old.train_key ELSE inc.train_key,
        planned_time_key |-> COALESCE(old.planned_time_key, inc.planned_time_key),
        changed_time_key |-> COALESCE(inc.changed_time_key, old.changed_time_key),
        event_status |-> COALESCE(inc.event_status, old.event_status),
        planned_platform |-> COALESCE(old.planned_platform, inc.planned_platform),
        changed_platform |-> COALESCE(inc.changed_platform, old.changed_platform),
        line |-> COALESCE(inc.line, old.line),
        planned_path |-> COALESCE(inc.planned_path, old.planned_path),
        delay_minutes |-> COALESCE(inc.delay_minutes, old.delay_minutes),
        is_cancelled |-> (old.is_cancelled \/ inc.is_cancelled)]

\* SQL_UPSERT_FACT_PLANNED as a statement that replaces the stored row
SQL_UPSERT_FACT_PLANNED_Replace(old, inc) == inc

\* INSERT ... ON CONFLICT (natural key) DO UPDATE of the planned flow; the
\* columns the SET list does not name keep the stored value
SQL_UPSERT_FACT_PLANNED(old, inc) ==
  IF ~old.present THEN inc
  ELSE [old EXCEPT
          !.train_key = inc.train_key,
          !.planned_time_key = COALESCE(inc.planned_time_key, old.planned_time_key),
          !.planned_platform = COALESCE(inc.planned_platform, old.planned_platform),
          !.line = COALESCE(inc.line, old.line),
          !.planned_path = COALESCE(inc.planned_path, old.planned_path)]

-----------------------------------------------------------------------------
(* Values a variable holds under a specification that does not use it      *)

NoRow == [present |-> FALSE]
IdleFact == <<>>
IdleLast == [flow |-> "none"]
IdleRp == [pass |-> 0]
IdleSm == [built |-> FALSE]
IdleLk == [label |-> None]
IdleDq == [called |-> FALSE]
IdleDres == [kind |-> "none"]
IdleFsys == [flow |-> "none"]
IdleDb == <<>>
IdleRun == [pc |-> "idle"]
RunIdle == fsys = IdleFsys /\ db = IdleDb /\ cdb = IdleDb /\ run = IdleRun

-----------------------------------------------------------------------------
(* Sample input: the attributes of <ar>/<dp> elements                      *)

TwoDigits(n) == <<DigitChar(n \div 10), DigitChar(n % 10)>>

\* the YYMMDDHHMM attribute text of an instant, as the feed writes it
AttrOfInstant(t) ==
  LET dt == DatetimeOf(t)
  IN  TwoDigits(dt.year % 100) \o TwoDigits(dt.month) \o TwoDigits(dt.day)
        \o TwoDigits(dt.hour) \o TwoDigits(dt.minute)

\* An element's attributes come in two groups.  The planned side (pt, pp, l,
\* ppth) is absent (0) or present in one of two versions.  The live side
\* (ct, cp, cs, dc) is absent (0), a change without an explicit delta (1), a
\* cancellation with a delta (2), or a status and a zero delta alone (3).
PlannedVersions == {0, 1, 2}
LiveVersions == {0, 1, 2, 3}

Pick(g, v1, v2) == IF g = 0 THEN None ELSE IF g = 1 THEN Some(v1) ELSE Some(v2)

Event(gP, gL) ==
  [pt   |-> Pick(gP, AttrOfInstant(BaseInstant), AttrOfInstant(BaseInstant + 2)),
   pp   |-> Pick(gP, "7", "8"),
   l    |-> Pick(gP, "S1", "S2"),
   ppth |-> Pick(gP, "A|B", "A|C"),
   ct   |-> IF gL \in {1, 2}
            THEN Pick(gL, AttrOfInstant(BaseInstant + 1), AttrOfInstant(BaseInstant + 63))
            ELSE None,
   cp   |-> IF gL \in {1, 2} THEN Pick(gL, "7", "9") ELSE None,
   cs   |-> IF gL = 0 THEN None ELSE IF gL = 1 THEN Some("p")
            ELSE IF gL = 2 THEN Some("c") ELSE Some("a"),
   dc   |-> IF gL = 2 THEN Some(<<"5">>) ELSE IF gL = 3 THEN Some(<<"0">>) ELSE None]

ChangeEvents == { Event(gP, gL) : gP \in PlannedVersions, gL \in LiveVersions }

\* the planned flow reads only pt, pp, l and ppth
PlannedEvents == { Event(gP, 0) : gP \in PlannedVersions }

-----------------------------------------------------------------------------
(* Spec: upsert statements executed against the fact table                 *)

\* surrogate keys of dim_train; the unknown train holds the first
MaxTrainKey == 3
TrainKeys == 1..MaxTrainKey
unknown_train_key == 1

\* the natural keys (snapshot_time_key, station_key, stop_id, event_type)
FactKeys ==
  { [snapshot_time_key |-> time_key(DatetimeOf(BaseInstant)),
     station_key |-> 1, stop_id |-> "stop-1", event_type |-> "A"] }

\* the rows the two flows can hand to their statements
ChangeRows ==
  { ChangesRow(x[1], x[2]).val :
      x \in { y \in TrainKeys \X ChangeEvents : Returned(ChangesRow(y[1], y[2])) } }

PlannedRows ==
  { PlannedRow(x[1], x[2]).val :
      x \in { y \in TrainKeys \X PlannedEvents : Returned(PlannedRow(y[1], y[2])) } }

Init ==
  /\ RunIdle
  /\ fact = [k \in FactKeys |-> NoRow]
  /\ last = IdleLast
  /\ rp = IdleRp
  /\ sm = IdleSm
  /\ lk = IdleLk
  /\ dq = IdleDq
  /\ dres = IdleDres

\* execute SQL_UPSERT_FACT_CHANGES for one row of the change flow
ChangeUpsert ==
  \E k \in FactKeys, r \in ChangeRows :
    /\ fact' = [fact EXCEPT
                  ![k] = SQL_UPSERT_FACT_CHANGES(fact[k], r, unknown_train_key)]
    /\ last' = [flow |-> "changes", key |-> k, inc |-> r, old |-> fact[k]]
    /\ UNCHANGED <<rp, sm, lk, dq, dres, fsys, db, cdb, run>>

\* execute SQL_UPSERT_FACT_PLANNED for one row of the planned flow
PlannedUpsert ==
  \E k \in FactKeys, r \in PlannedRows :
    /\ fact' = [fact EXCEPT ![k] = SQL_UPSERT_FACT_PLANNED(fact[k], r)]
    /\ last' = [flow |-> "planned", key |-> k, inc |-> r, old |-> fact[k]]
    /\ UNCHANGED <<rp, sm, lk, dq, dres, fsys, db, cdb, run>>

Next == ChangeUpsert \/ PlannedUpsert

Spec == Init /\ [][Next]_vars

\* the row stored under the key of the last statement, and the row it met
Stored == fact[last.key]
Met == last.old

\* C2 (cancellation monotonicity): whichever of the two statements ran last,
\* if the row it met was cancelled, the stored row is cancelled; so over any
\* interleaving of the two flows on a key a cancelled row stays cancelled.
C2_CancellationMonotone ==
  (last.flow # "none" /\ Met.present /\ Met.is_cancelled)
    => (Stored.present /\ Stored.is_cancelled)

\* a cancelled row met a change-flow row that does not cancel
C2_Witness ==
  /\ last.flow = "changes"
  /\ Met.present /\ Met.is_cancelled
  /\ ~last.inc.is_cancelled
  /\ Stored.is_cancelled

\* C3 (unknown-identity protection): a change-flow row that carries the
\* unknown train, merged onto a row with a resolved train key, leaves the
\* stored train key as it was.
C3_UnknownKeepsTrain ==
  (/\ last.flow = "changes"
   /\ Met.present
   /\ Met.train_key # unknown_train_key
   /\ last.inc.train_key = unknown_train_key)
    => Stored.train_key = Met.train_key

C3_Witness ==
  /\ last.flow = "changes"
  /\ Met.present
  /\ Met.train_key # unknown_train_key
  /\ last.inc.train_key = unknown_train_key
  /\ Stored.train_key = Met.train_key

PlannedFields == {"planned_time_key", "planned_platform"}

LiveFields ==
  {"changed_time_key", "event_status", "changed_platform", "line",
   "planned_path", "delay_minutes"}

\* C5 (keep existing, planned fields of the change flow): after a change-flow
\* merge onto an existing row, planned time key and planned platform are the
\* existing value when it is set and the incoming value when it is not.
C5_PlannedKeepExisting ==
  (last.flow = "changes" /\ Met.present)
    => \A f \in PlannedFields :
         Stored[f] = (IF IsSet(Met[f]) THEN Met[f] ELSE last.inc[f])

\* incoming planned platform "8" onto existing "7" yields "7"
C5_Witness ==
  /\ last.flow = "changes"
  /\ Met.present
  /\ Met.planned_platform = Some("7")
  /\ last.inc.planned_platform = Some("8")
  /\ Stored.planned_platform = Some("7")

\* C6 (prefer incoming, live fields of the change flow): after a change-flow
\* merge onto an existing row, each live field is the incoming value when it
\* is set and the existing value when it is not; a set value, delay 0
\* included, is never replaced by unset.
C6_LivePreferIncoming ==
  (last.flow = "changes" /\ Met.present)
    => \A f \in LiveFields :
         /\ Stored[f] = (IF IsSet(last.inc[f]) THEN last.inc[f] ELSE Met[f])
         /\ IsSet(Met[f]) => IsSet(Stored[f])

\* incoming changed platform "9" onto existing "7" yields "9", and an
\* incoming delay of 0 replaced a stored delay of 5
C6_Witness ==
  /\ last.flow = "changes"
  /\ Met.present
  /\ Met.changed_platform = Some("7")
  /\ last.inc.changed_platform = Some("9")
  /\ Stored.changed_platform = Some("9")

\* a stored delay of 0 met an incoming row without a delay and was kept
C6_WitnessZeroDelay ==
  /\ last.flow = "changes"
  /\ Met.present
  /\ Met.delay_minutes = Some(0)
  /\ last.inc.delay_minutes = None
  /\ Stored.delay_minutes = Some(0)

\* C13 (train-key merge rule of the change flow), as claimed: after a
\* change-flow merge onto an existing row the stored train key differs from
\* the existing one only when the existing key is the unknown train and the
\* incoming key is a resolved one; an existing resolved key is kept when the
\* incoming row carries a different resolved key.
C13_TrainKeyChangesOnlyFromUnknown ==
  (/\ last.flow = "changes"
   /\ Met.present
   /\ Stored.train_key # Met.train_key)
    => (/\ Met.train_key = unknown_train_key
        /\ last.inc.train_key # unknown_train_key)

\* the fields of the planned-flow statement that the merge-direction claim
\* names
PlannedFlowFields ==
  {"planned_time_key", "planned_platform", "line", "planned_path"}

\* C14 (planned-flow merge direction), as claimed: after a planned-flow merge
\* onto an existing row, planned time key, planned platform, line and planned
\* path are the existing value when it is set and the incoming value only
\* when the existing one is unset.
C14_PlannedFlowKeepsExisting ==
  (last.flow = "planned" /\ Met.present)
    => \A f \in PlannedFlowFields :
         Stored[f] = (IF IsSet(Met[f]) THEN Met[f] ELSE last.inc[f])

\* C15 (unknown-identity protection across both flows), as claimed: whichever
\* of the two statements ran last, if the row it met held a resolved train
\* key, the stored row does not hold the key of the unknown train; so over
\* any interleaving of the two flows on a key a resolved train key is never
\* replaced by the unknown identity.
C15_ResolvedNeverBecomesUnknown ==
  (/\ last.flow # "none"
   /\ Met.present
   /\ Met.train_key # unknown_train_key)
    => Stored.train_key # unknown_train_key

-----------------------------------------------------------------------------
(* SpecReplay: the rows of one snapshot applied to a store, then applied   *)
(* again in the same order, as a second run over the same folder does      *)

MaxSeqLen == 2

\* trains of the replayed rows: the unknown train and a resolved one
ReplayTrains == {unknown_train_key, 2}

ReplayRows(flow) ==
  IF flow = "changes" THEN { r \in ChangeRows : r.train_key \in ReplayTrains }
  ELSE { r \in PlannedRows : r.train_key \in ReplayTrains }

\* the row the store holds under the key before the snapshot is applied:
\* none, one the planned flow inserted, or a cancelled one of the change flow
StartRows ==
  {NoRow} \cup { r \in PlannedRows : r.train_key \in ReplayTrains }
          \cup { r \in ChangeRows : r.train_key = 2 /\ r.is_cancelled }

SeqsOf(S, n) == UNION { [1..m -> S] : m \in 1..n }

\* the fact table of the replay holds a second natural key, the departure of
\* the same stop, which no replayed row addresses
ReplayKeys ==
  FactKeys \cup { [k EXCEPT !.event_type = "D"] : k \in FactKeys }

\* the row stored under that second key: a cancelled departure with a delay
OtherRow == ChangesRow(3, Event(1, 2)).val

\* rp.start remembers the row the key held before the first application
InitReplay ==
  /\ RunIdle
  /\ \E flow \in {"changes", "planned"}, k \in FactKeys, start \in StartRows :
       \E seq \in SeqsOf(ReplayRows(flow), MaxSeqLen) :
         /\ fact = [x \in ReplayKeys |-> IF x = k THEN start ELSE OtherRow]
         /\ rp = [pass |-> 1, pos |-> 1, flow |-> flow, key |-> k,
                  seq |-> seq, once |-> NoRow, start |-> start]
  /\ last = IdleLast
  /\ sm = IdleSm
  /\ lk = IdleLk
  /\ dq = IdleDq
  /\ dres = IdleDres

\* what applying row rp.seq[rp.pos] leaves in rp: the next position, and at
\* the end of the first application the store it produced
ReplayAdvance(stored) ==
  IF rp.pos < Len(rp.seq) THEN [rp EXCEPT !.pos = rp.pos + 1]
  ELSE IF rp.pass = 1 THEN [rp EXCEPT !.pass = 2, !.pos = 1, !.once = stored]
  ELSE [rp EXCEPT !.pass = 3]

ReplayChangeUpsert ==
  /\ rp.pass \in {1, 2}
  /\ rp.flow = "changes"
  /\ LET r == rp.seq[rp.pos]
         merged == SQL_UPSERT_FACT_CHANGES(fact[rp.key], r, unknown_train_key)
     IN  /\ fact' = [fact EXCEPT ![rp.key] = merged]
         /\ last' = [flow |-> "changes", key |-> rp.key, inc |-> r,
                     old |-> fact[rp.key]]
         /\ rp' = ReplayAdvance(merged)
  /\ UNCHANGED <<sm, lk, dq, dres, fsys, db, cdb, run>>

ReplayPlannedUpsert ==
  /\ rp.pass \in {1, 2}
  /\ rp.flow = "planned"
  /\ LET r == rp.seq[rp.pos]
         merged == SQL_UPSERT_FACT_PLANNED(fact[rp.key], r)
     IN  /\ fact' = [fact EXCEPT ![rp.key] = merged]
         /\ last' = [flow |-> "planned", key |-> rp.key, inc |-> r,
                     old |-> fact[rp.key]]
         /\ rp' = ReplayAdvance(merged)
  /\ UNCHANGED <<sm, lk, dq, dres, fsys, db, cdb, run>>

NextReplay == ReplayChangeUpsert \/ ReplayPlannedUpsert

SpecReplay == InitReplay /\ [][NextReplay]_vars

\* C1 (idempotence): when a snapshot's rows have been applied twice in the
\* same order, with either flow's statement, the stored row equals the row
\* stored after the first application.
C1_ReplayIdempotent ==
  rp.pass = 3 => fact[rp.key] = rp.once

\* a change-flow snapshot with two observations of the key that disagree on
\* the changed platform, applied twice onto an existing row
C1_Witness ==
  /\ rp.pass = 3
  /\ rp.flow = "changes"
  /\ Len(rp.seq) >= 2
  /\ rp.seq[1].changed_platform = Some("9")
  /\ rp.seq[2].changed_platform = Some("7")
  /\ fact[rp.key] = rp.once
  /\ fact[rp.key].changed_platform = Some("7")

\* the same for a planned-flow snapshot
C1_WitnessPlanned ==
  /\ rp.pass = 3
  /\ rp.flow = "planned"
  /\ Len(rp.seq) >= 2
  /\ rp.seq[1].planned_platform = Some("8")
  /\ rp.seq[2].planned_platform = Some("7")
  /\ fact[rp.key] = rp.once

\* the live fields of the no-regression claim
RegressFields ==
  {"changed_time_key", "changed_platform", "event_status", "delay_minutes"}

\* C4 (no regression of live state), as claimed: in the change flow, when an
\* earlier observation i of the key is applied again while the store holds a
\* live field of a later observation j, that field is not set back to the
\* value of observation i.
C4_NoRegression ==
  (rp.flow = "changes" /\ rp.pass = 2 /\ rp.pos > 1)
    => LET i == rp.pos - 1
       IN  \A j \in (i + 1)..Len(rp.seq), f \in RegressFields :
             (/\ IsSet(rp.seq[j][f])
              /\ Met[f] = rp.seq[j][f]
              /\ rp.seq[i][f] # rp.seq[j][f])
               => Stored[f] # rp.seq[i][f]

\* the columns the planned-flow statement must leave alone
FrameFields ==
  {"changed_time_key", "event_status", "changed_platform", "delay_minutes",
   "is_cancelled"}

\* C16 (frame of the planned-flow merge): a planned-flow upsert onto an
\* existing row leaves changed time key, event status, changed platform,
\* delay minutes and the cancellation flag of that row as they were; on first
\* insertion it stores the four live fields as unset and cancellation as
\* false; and every step of the planned flow leaves every row under another
\* natural key unchanged.
C16_PlannedFrame ==
  /\ [](last.flow = "planned"
          => IF Met.present
             THEN \A f \in FrameFields : Stored[f] = Met[f]
             ELSE /\ Stored.present
                  /\ \A f \in FrameFields \ {"is_cancelled"} : Stored[f] = None
                  /\ Stored.is_cancelled = FALSE)
  /\ [][rp.flow = "planned"
          => /\ DOMAIN fact' = DOMAIN fact
             /\ \A x \in DOMAIN fact \ {rp.key} : fact'[x] = fact[x]]_vars

\* a planned-flow row met a cancelled row of the change flow that holds a
\* delay and a changed platform, while the other natural key holds its row
C16_Witness ==
  /\ last.flow = "planned"
  /\ Met.present
  /\ Met.is_cancelled
  /\ Met.delay_minutes = Some(5)
  /\ IsSet(Met.changed_platform)
  /\ Stored.train_key # Met.train_key
  /\ \A f \in FrameFields : Stored[f] = Met[f]
  /\ \E x \in DOMAIN fact \ {last.key} : fact[x] = OtherRow

\* a planned-flow row was inserted under a key that held no row
C16_WitnessInsert ==
  /\ last.flow = "planned"
  /\ ~Met.present
  /\ Stored.present
  /\ Stored.delay_minutes = None
  /\ ~Stored.is_cancelled

\* the row left by applying the observations of seq, in order, with the
\* change-flow statement onto the row start
RECURSIVE AppliedChanges(_, _)
AppliedChanges(start, seq) ==
  IF Len(seq) = 0 THEN start
  ELSE AppliedChanges(SQL_UPSERT_FACT_CHANGES(start, Head(seq), unknown_train_key),
                      Tail(seq))

\* C18 (cancellation is order-insensitive): when the observations of a key
\* have all been applied with the change-flow statement, the stored
\* cancellation flag is true exactly when the row the key held before was
\* cancelled or at least one observation has status "c" (exactly when one
\* observation has status "c", for a key that held no row), and it is the
\* flag every other order of application of the same observations leaves.
C18_CancellationOrderInsensitive ==
  (rp.flow = "changes" /\ rp.pass >= 2)
    => /\ rp.once.is_cancelled
            = (\/ (rp.start.present /\ rp.start.is_cancelled)
               \/ \E i \in 1..Len(rp.seq) : rp.seq[i].event_status = Some("c"))
       /\ \A p \in Permutations(1..Len(rp.seq)) :
            AppliedChanges(rp.start, [i \in 1..Len(rp.seq) |-> rp.seq[p[i]]]).is_cancelled
              = rp.once.is_cancelled

\* a key that held no row received an observation with status "c" and then
\* one with status "a"; the stored row is cancelled
C18_Witness ==
  /\ rp.flow = "changes"
  /\ rp.pass >= 2
  /\ ~rp.start.present
  /\ Len(rp.seq) = 2
  /\ rp.seq[1].event_status = Some("c")
  /\ rp.seq[2].event_status = Some("a")
  /\ rp.once.is_cancelled

\* a key that held no row received observations none of which has status
\* "c"; the stored row is not cancelled
C18_WitnessNotCancelled ==
  /\ rp.flow = "changes"
  /\ rp.pass >= 2
  /\ ~rp.start.present
  /\ Len(rp.seq) = 2
  /\ rp.seq[1].event_status = Some("a")
  /\ rp.seq[2].event_status = None
  /\ ~rp.once.is_cancelled

\* the rows of observations that carry no explicit delta (no dc attribute)
NoDeltaRows ==
  { ChangesRow(x[1], x[2]).val :
      x \in { y \in TrainKeys \X ChangeEvents :
                y[2].dc = None /\ Returned(ChangesRow(y[1], y[2])) } }

\* C21 (delay consistency of the stored row), as claimed: while the
\* observations of a key that held no row are applied with the change-flow
\* statement and none of them carries an explicit delta, a stored row with
\* both planned and changed time key set has its delay set, equal to the
\* whole-minute difference between the stored changed time and the stored
\* planned time.
C21_DelayMatchesStoredTimes ==
  (/\ rp.flow = "changes"
   /\ ~rp.start.present
   /\ \A i \in 1..Len(rp.seq) : rp.seq[i] \in NoDeltaRows
   /\ fact[rp.key].present
   /\ IsSet(fact[rp.key].planned_time_key)
   /\ IsSet(fact[rp.key].changed_time_key))
    => fact[rp.key].delay_minutes
         = compute_delay_minutes(fact[rp.key].planned_time_key,
                                 fact[rp.key].changed_time_key, None).val

-----------------------------------------------------------------------------
(* Station names: norm_name and the alias table of build_station_maps      *)

Whitespace == {" ", "\t"}

UpperLetters == <<"A", "B", "C", "D", "E", "F", "G", "H", "I", "J", "K", "L", "M",
                  "N", "O", "P", "Q", "R", "S", "T", "U", "V", "W", "X", "Y", "Z">>
LowerLetters == <<"a", "b", "c", "d", "e", "f", "g", "h", "i", "j", "k", "l", "m",
                  "n", "o", "p", "q", "r", "s", "t", "u", "v", "w", "x", "y", "z">>

LowerChar(c) ==
  IF \E i \in 1..Len(UpperLetters) : UpperLetters[i] = c
  THEN LowerLetters[CHOOSE i \in 1..Len(UpperLetters) : UpperLetters[i] = c]
  ELSE c

\* str.lower()
lower(s) == [i \in 1..Len(s) |-> LowerChar(s[i])]

\* str.strip(): drop leading and trailing whitespace
RECURSIVE strip(_)
strip(s) ==
  IF Len(s) > 0 /\ s[1] \in Whitespace THEN strip(Tail(s))
  ELSE IF Len(s) > 0 /\ s[Len(s)] \in Whitespace THEN strip(SubSeq(s, 1, Len(s) - 1))
  ELSE s

\* str.replace(a, b) for single characters
replace(s, a, b) == [i \in 1..Len(s) |-> IF s[i] = a THEN b ELSE s[i]]

\* re.sub(r"\s+", " ", s): every run of whitespace becomes one space
RECURSIVE collapse(_)
collapse(s) ==
  IF Len(s) = 0 THEN s
  ELSE IF s[1] \in Whitespace
    THEN IF Len(s) > 1 /\ s[2] \in Whitespace THEN collapse(Tail(s))
         ELSE <<" ">> \o collapse(Tail(s))
  ELSE <<s[1]>> \o collapse(Tail(s))

\* norm_name without the lower-casing
norm_name_NoLower(x) == collapse(replace(strip(x), "_", " "))

norm_name(x) == collapse(replace(lower(strip(x)), "_", " "))

\* str.startswith(prefix)
startswith(s, prefix) ==
  Len(s) >= Len(prefix) /\ SubSeq(s, 1, Len(prefix)) = prefix

berlin == <<"b", "e", "r", "l", "i", "n">>
berlin_space == berlin \o <<" ">>

\* dict assignment d[k] = v and dict.get(k)
DictSet(d, k, v) == [x \in DOMAIN d \cup {k} |-> IF x = k THEN v ELSE d[x]]
DictGet(d, k) == IF k \in DOMAIN d THEN Some(d[k]) ELSE None
EmptyDict == [x \in {} |-> 0]

\* next((e for e in evas if e.get("isMain") is True), evas[0])
MainEva(evas) ==
  IF \E i \in 1..Len(evas) : evas[i].isMain
  THEN evas[CHOOSE i \in 1..Len(evas) :
              evas[i].isMain /\ \A j \in 1..(i - 1) : ~evas[j].isMain]
  ELSE evas[1]

\* the aliases registered for one catalog name, with the region prefix added
\* whenever the name does not start with "berlin " (space included)
RegisterAliases_PrefixUnlessBerlinSpace(name_to_eva, n, eva) ==
  LET d1 == DictSet(name_to_eva, n, eva)
      d2 == IF startswith(n, berlin_space)
            THEN DictSet(d1, SubSeq(n, Len(berlin_space) + 1, Len(n)), eva)
            ELSE d1
  IN  IF ~startswith(n, berlin_space) THEN DictSet(d2, berlin_space \o n, eva) ELSE d2

\* "robust aliases": the three assignments to name_to_eva for one station
RegisterAliases(name_to_eva, n, eva) ==
  LET d1 == DictSet(name_to_eva, n, eva)
      d2 == IF startswith(n, berlin_space)
            THEN DictSet(d1, SubSeq(n, Len(berlin_space) + 1, Len(n)), eva)
            ELSE d1
  IN  IF ~startswith(n, berlin) THEN DictSet(d2, berlin_space \o n, eva) ELSE d2

\* one iteration of the loop over data["result"]: maps is the pair of
\* dictionaries built so far, s the station entry
RegisterStation(maps, s) ==
  IF Len(s.evaNumbers) = 0 THEN maps
  ELSE LET main == MainEva(s.evaNumbers)
           eva == main.number
           lonlat == IF IsSet(main.coordinates) /\ Len(Val(main.coordinates)) = 2
                     THEN <<Some(Val(main.coordinates)[1]), Some(Val(main.coordinates)[2])>>
                     ELSE <<None, None>>
       IN  [eva_to_station |->
              DictSet(maps.eva_to_station, eva,
                      [name |-> s.name, lat |-> lonlat[2], lon |-> lonlat[1]]),
            name_to_eva |-> RegisterAliases(maps.name_to_eva, norm_name(s.name), eva)]

RECURSIVE build_station_maps_from(_, _, _)
build_station_maps_from(maps, result, i) ==
  IF i > Len(result) THEN maps
  ELSE build_station_maps_from(RegisterStation(maps, result[i]), result, i + 1)

build_station_maps(result) ==
  build_station_maps_from([eva_to_station |-> EmptyDict, name_to_eva |-> EmptyDict],
                          result, 1)

\* name_to_eva.get(norm_name(station_name))
ResolveName(name_to_eva, station_name) == DictGet(name_to_eva, norm_name(station_name))

-----------------------------------------------------------------------------
(* SpecStations: build_station_maps on a catalog, then labels resolved     *)

MaxCatalog == 2

N_BerlinHauptbahnhof == <<"B", "e", "r", "l", "i", "n", " ", "H", "a", "u", "p", "t", "b", "a", "h", "n", "h", "o", "f">>
N_Hauptbahnhof == <<"H", "a", "u", "p", "t", "b", "a", "h", "n", "h", "o", "f">>
N_BerlinSpandau == <<"B", "e", "r", "l", "i", "n", "-", "S", "p", "a", "n", "d", "a", "u">>
N_BerlinHauptbahnhofUntidy == <<" ", "B", "e", "r", "l", "i", "n", "_", " ", "H", "a", "u", "p", "t", "b", "a", "h", "n", "h", "o", "f", "\t">>

CatalogNames ==
  {N_BerlinHauptbahnhof, N_Hauptbahnhof, N_BerlinSpandau, N_BerlinHauptbahnhofUntidy}

\* evaNumbers of a catalog entry: none, one main number, or two numbers of
\* which the second is the main one
EvaLists ==
  { <<>>,
    <<[number |-> 8011160, isMain |-> TRUE, coordinates |-> Some(<<13, 52>>)]>>,
    <<[number |-> 8010404, isMain |-> FALSE, coordinates |-> None],
      [number |-> 8010405, isMain |-> TRUE, coordinates |-> Some(<<13>>)]>> }

CatalogEntries == { [name |-> n, evaNumbers |-> e] : n \in CatalogNames, e \in EvaLists }

Catalogs == UNION { [1..m -> CatalogEntries] : m \in 0..MaxCatalog }

L_berlin_hauptbahnhof == <<"b", "e", "r", "l", "i", "n", " ", "h", "a", "u", "p", "t", "b", "a", "h", "n", "h", "o", "f">>
L_Berlin_Hauptbahnhof == <<"B", "e", "r", "l", "i", "n", "_", "H", "a", "u", "p", "t", "b", "a", "h", "n", "h", "o", "f">>
L_hauptbahnhof == <<"h", "a", "u", "p", "t", "b", "a", "h", "n", "h", "o", "f">>
L_berlin_berlin_spandau == <<"b", "e", "r", "l", "i", "n", " ", "b", "e", "r", "l", "i", "n", "-", "s", "p", "a", "n", "d", "a", "u">>
L_Spandau == <<"S", "p", "a", "n", "d", "a", "u">>

Labels ==
  {L_berlin_hauptbahnhof, L_Berlin_Hauptbahnhof, L_hauptbahnhof,
   L_berlin_berlin_spandau, L_Spandau}

InitStations ==
  /\ RunIdle
  /\ \E c \in Catalogs : sm = [built |-> FALSE, catalog |-> c]
  /\ lk = IdleLk
  /\ fact = IdleFact
  /\ last = IdleLast
  /\ rp = IdleRp
  /\ dq = IdleDq
  /\ dres = IdleDres

BuildStationMaps ==
  /\ ~sm.built
  /\ sm' = [built |-> TRUE, catalog |-> sm.catalog,
            maps |-> build_station_maps(sm.catalog)]
  /\ UNCHANGED <<lk, fact, last, rp, dq, dres, fsys, db, cdb, run>>

\* the planned flow resolves the station label of a file
ResolveLabel ==
  /\ sm.built
  /\ \E label \in Labels :
       lk' = [label |-> Some(label),
              eva |-> ResolveName(sm.maps.name_to_eva, label)]
  /\ UNCHANGED <<sm, fact, last, rp, dq, dres, fsys, db, cdb, run>>

NextStations == BuildStationMaps \/ ResolveLabel

SpecStations == InitStations /\ [][NextStations]_vars

\* catalog entries that have a station identifier
WithEva(c) == { i \in 1..Len(c) : Len(c[i].evaNumbers) > 0 }

EvaOf(c, i) == MainEva(c[i].evaNumbers).number

\* C9 (station alias resolution), as claimed: for every catalog name the
\* table maps the normalized name to the station, the name without a leading
\* "berlin " when it has one, and the name with "berlin " prepended when it
\* does not start with "berlin "; and the three labels of an entry
\* "Berlin Hauptbahnhof" resolve to one station.
C9_AliasTableAsClaimed ==
  sm.built =>
    LET c == sm.catalog
        t == sm.maps.name_to_eva
    IN  /\ \A i \in WithEva(c) :
             LET n == norm_name(c[i].name)
             IN  /\ DictGet(t, n) = Some(EvaOf(c, i))
                 /\ startswith(n, berlin_space)
                      => DictGet(t, SubSeq(n, Len(berlin_space) + 1, Len(n)))
                           = Some(EvaOf(c, i))
                 /\ ~startswith(n, berlin_space)
                      => DictGet(t, berlin_space \o n) = Some(EvaOf(c, i))
        /\ (\E i \in WithEva(c) : c[i].name = N_BerlinHauptbahnhof)
             => /\ IsSet(ResolveName(t, L_berlin_hauptbahnhof))
                /\ ResolveName(t, L_Berlin_Hauptbahnhof) = ResolveName(t, L_berlin_hauptbahnhof)
                /\ ResolveName(t, L_hauptbahnhof) = ResolveName(t, L_berlin_hauptbahnhof)

\* the aliases of a normalized name n: n, n without a leading "berlin ", and
\* "berlin " + n unless n starts with "berlin" (followed by a space or not)
AliasesOf(n) ==
  {n}
    \cup (IF startswith(n, berlin_space)
          THEN {SubSeq(n, Len(berlin_space) + 1, Len(n))} ELSE {})
    \cup (IF ~startswith(n, berlin) THEN {berlin_space \o n} ELSE {})

Registrants(c, k) == { i \in WithEva(c) : k \in AliasesOf(norm_name(c[i].name)) }

MaxOf(S) == CHOOSE x \in S : \A y \in S : y <= x

\* C9 as amended: the table holds exactly the aliases of the entries that have
\* an identifier, each resolving to the main identifier of the last entry in
\* catalog order that registers it; so the three labels of an entry
\* "Berlin Hauptbahnhof" resolve to its station unless a later entry
\* registers one of them again.
C9_AliasTableLastWins ==
  sm.built =>
    LET c == sm.catalog
        t == sm.maps.name_to_eva
    IN  /\ DOMAIN t = UNION { AliasesOf(norm_name(c[i].name)) : i \in WithEva(c) }
        /\ \A k \in DOMAIN t : t[k] = EvaOf(c, MaxOf(Registrants(c, k)))
        /\ \A i \in WithEva(c) :
             (/\ c[i].name = N_BerlinHauptbahnhof
              /\ \A j \in WithEva(c) :
                   j > i => AliasesOf(norm_name(c[j].name))
                              \cap AliasesOf(norm_name(c[i].name)) = {})
               => \A label \in {L_berlin_hauptbahnhof, L_Berlin_Hauptbahnhof,
                                L_hauptbahnhof} :
                    ResolveName(t, label) = Some(EvaOf(c, i))
        /\ IsSet(lk.label) => lk.eva = ResolveName(t, Val(lk.label))

\* a catalog with "Berlin Hauptbahnhof" and "Berlin-Spandau": the label
\* "Berlin_Hauptbahnhof" resolved to the first, and the second got no
\* "berlin berlin-spandau" alias
C9_Witness ==
  /\ sm.built
  /\ Len(sm.catalog) = 2
  /\ sm.catalog[1].name = N_BerlinHauptbahnhof
  /\ sm.catalog[2].name = N_BerlinSpandau
  /\ WithEva(sm.catalog) = {1, 2}
  /\ lk.label = Some(L_Berlin_Hauptbahnhof)
  /\ lk.eva = Some(EvaOf(sm.catalog, 1))
  /\ ResolveName(sm.maps.name_to_eva, L_hauptbahnhof) = lk.eva
  /\ ResolveName(sm.maps.name_to_eva, L_berlin_berlin_spandau) = None

-----------------------------------------------------------------------------
(* SpecDelay: calls of compute_delay_minutes                               *)

MaxDcLen == 3

\* characters of an explicit delta attribute: signs, digits, a non-digit
DcChars == {"-", "+", "0", "5", "x"}

DcValues == {None} \cup { Some(s) : s \in StringsUpTo(DcChars, MaxDcLen) }

OptInstants == {None} \cup { Some(t) : t \in Instants }

\* the time key of an optional instant, as ingestion forms it
KeyOfInstant(ot) == IF IsSet(ot) THEN Some(time_key(DatetimeOf(Val(ot)))) ELSE None

InitDelay ==
  /\ RunIdle
  /\ \E tp \in OptInstants, tc \in OptInstants, dc \in DcValues :
       dq = [called |-> FALSE, tp |-> tp, tc |-> tc,
             pt_key |-> KeyOfInstant(tp), ct_key |-> KeyOfInstant(tc), dc |-> dc]
  /\ dres = IdleDres
  /\ fact = IdleFact
  /\ last = IdleLast
  /\ rp = IdleRp
  /\ sm = IdleSm
  /\ lk = IdleLk

CallComputeDelay ==
  /\ ~dq.called
  /\ dq' = [dq EXCEPT !.called = TRUE]
  /\ dres' = compute_delay_minutes(dq.pt_key, dq.ct_key, dq.dc)
  /\ UNCHANGED <<fact, last, rp, sm, lk, fsys, db, cdb, run>>

NextDelay == CallComputeDelay

SpecDelay == InitDelay /\ [][NextDelay]_vars

\* an optionally negative integer: one optional minus sign, then digits
ValidDelta(s) == isdigit(s) \/ (Len(s) > 1 /\ s[1] = "-" /\ isdigit(Tail(s)))

DeltaValue(s) == IF s[1] = "-" THEN 0 - DigitsValue(Tail(s)) ELSE DigitsValue(s)

\* what the delay rule asks for: the explicit delta, else the elapsed
\* minutes between the two instants, else absent
ExpectedDelay(q) ==
  IF IsSet(q.dc) /\ ValidDelta(Val(q.dc)) THEN Some(DeltaValue(Val(q.dc)))
  ELSE IF IsSet(q.tp) /\ IsSet(q.tc) THEN Some(Val(q.tc) - Val(q.tp))
  ELSE None

\* C7 (delay priority), as claimed: every call of compute_delay_minutes
\* returns the explicit delta when it is a valid optionally negative integer,
\* else the elapsed minutes changed - planned when both keys are present,
\* else absent; a delta that is no valid integer falls through to the last
\* two rules.
C7_DelayPriority ==
  dq.called => dres = Return(ExpectedDelay(dq))

-----------------------------------------------------------------------------
(* The week folder: names, listings, files                                 *)

\* the characters of the sample names in code-point order
CodePoints ==
  <<" ", "-", ".">> \o <<"0", "1", "2", "3", "4", "5", "6", "7", "8", "9">>
    \o UpperLetters \o <<"_">> \o LowerLetters

ord(c) == CHOOSE i \in 1..Len(CodePoints) : CodePoints[i] = c

\* a < b for two Python strings
StrLess(a, b) ==
  \E i \in 1..Len(b) :
    /\ \A j \in 1..(i - 1) : j <= Len(a) /\ a[j] = b[j]
    /\ \/ i = Len(a) + 1
       \/ i <= Len(a) /\ ord(a[i]) < ord(b[i])

\* sorted(names)
RECURSIVE sorted(_)
sorted(S) ==
  IF S = {} THEN <<>>
  ELSE LET least == CHOOSE x \in S : \A y \in S \ {x} : StrLess(x, y)
       IN  <<least>> \o sorted(S \ {least})

endswith(s, suffix) ==
  Len(s) >= Len(suffix) /\ SubSeq(s, Len(s) - Len(suffix) + 1, Len(s)) = suffix

\* what ET.parse finds in a file that is not XML
NoXml ==
  [wellformed |-> FALSE, root |-> [eva |-> None, station |-> None], stops |-> <<>>]

\* an entry of a folder: a folder with its own entries, or a file
Dir(entries) == [kind |-> "dir", entries |-> entries, xml |-> NoXml]
File(xml) == [kind |-> "file", entries |-> EmptyDict, xml |-> xml]

listdir(d) == DOMAIN d.entries
isdir(node) == node.kind = "dir"

\* SNAP_RE = ^\d{10}$
SNAP_RE_match(entry) == Len(entry) = 10 /\ \A i \in 1..10 : entry[i] \in Digits

\* ingest_changes.iter_snapshot_dirs: the snapshot folders directly in week_dir
changes_iter_snapshot_dirs(week_dir) ==
  LET keep(entry) == isdir(week_dir.entries[entry]) /\ SNAP_RE_match(entry)
      hits == SelectSeq(sorted(listdir(week_dir)), keep)
  IN  [i \in 1..Len(hits) |-> [name |-> hits[i], dir |-> week_dir.entries[hits[i]]]]

\* ingest_timetables.iter_snapshot_dirs: the same, but a folder that is not a
\* snapshot is descended into at its place in the listing
RECURSIVE timetables_iter_snapshot_dirs(_)
timetables_iter_snapshot_dirs(week_dir) ==
  LET names == sorted(listdir(week_dir))
      RECURSIVE walk(_)
      walk(i) ==
        IF i > Len(names) THEN <<>>
        ELSE LET entry == names[i]
                 node == week_dir.entries[entry]
             IN  (IF ~isdir(node) THEN <<>>
                  ELSE IF SNAP_RE_match(entry) THEN <<[name |-> entry, dir |-> node]>>
                  ELSE timetables_iter_snapshot_dirs(node)) \o walk(i + 1)
  IN  walk(1)

dot_xml == <<".", "x", "m", "l">>

\* iter_xml_files: the entries of a snapshot folder whose name ends in .xml
iter_xml_files(snapshot) ==
  LET keep(fn) == endswith(lower(fn), dot_xml)
      hits == SelectSeq(sorted(listdir(snapshot)), keep)
  IN  [i \in 1..Len(hits) |-> [fn |-> hits[i], node |-> snapshot.entries[hits[i]]]]

\* ET.parse(fp).getroot() / ET.fromstring(f.read())
ET_parse(node) ==
  IF node.kind = "file" /\ node.xml.wellformed THEN Return(node.xml)
  ELSE Raise("ParseError")

timetable_xml_suffix == <<"_", "t", "i", "m", "e", "t", "a", "b", "l", "e", ".", "x", "m", "l">>

\* station_from_root_or_filename
station_from_root_or_filename(root, filename) ==
  IF IsSet(root.station) /\ Len(Val(root.station)) > 0 THEN Val(root.station)
  ELSE LET base == IF endswith(lower(filename), timetable_xml_suffix)
                   THEN SubSeq(filename, 1, Len(filename) - Len(timetable_xml_suffix))
                   ELSE filename
       IN  replace(base, "_", " ")

-----------------------------------------------------------------------------
(* The store and the statements the two flows execute                      *)

\* fact_train_movement, dim_train, dim_time and dim_station; the two
\* sequences hand out the surrogate keys
EmptyStore ==
  [fact |-> EmptyDict, dim_train |-> EmptyDict, train_seq |-> 0,
   dim_time |-> {}, dim_station |-> EmptyDict, station_seq |-> 0]

RowAt(table, k) == IF k \in DOMAIN table THEN table[k] ELSE NoRow

\* conn.autocommit = False: a statement's work is durable only at commit()
autocommit_On == TRUE
autocommit == FALSE

\* INSERT INTO dim_time ... ON CONFLICT (time_key) DO NOTHING
SQL_UPSERT_TIME(store, k) == [store EXCEPT !.dim_time = @ \cup {k}]

\* INSERT INTO dim_train ... ON CONFLICT (...) DO NOTHING: the sequence
\* advances whether or not the row is inserted
SQL_UPSERT_TRAIN(store, key) ==
  [store EXCEPT
     !.train_seq = @ + 1,
     !.dim_train = IF key \in DOMAIN @ THEN @ ELSE DictSet(@, key, store.train_seq + 1)]

SQL_SELECT_TRAIN_KEY(store, key) == store.dim_train[key]

\* INSERT INTO dim_station ... ON CONFLICT (eva) DO UPDATE SET station_name,
\* lat, lon
SQL_UPSERT_STATION(store, eva, st) ==
  [store EXCEPT
     !.station_seq = @ + 1,
     !.dim_station =
        DictSet(@, eva,
                [station_key |-> IF eva \in DOMAIN @ THEN @[eva].station_key
                                 ELSE store.station_seq + 1,
                 station_name |-> st.name, lat |-> st.lat, lon |-> st.lon])]

\* SELECT eva, station_key FROM dim_station, as the dict the flows build
SELECT_station_keys(store) ==
  [e \in DOMAIN store.dim_station |-> store.dim_station[e].station_key]

\* execute_batch(cur, SQL_UPSERT_FACT_CHANGES, [r + (unknown_train_key,) ...])
RECURSIVE execute_batch_changes(_, _, _)
execute_batch_changes(store, rows, unk_key) ==
  IF rows = <<>> THEN store
  ELSE LET r == Head(rows)
       IN  execute_batch_changes(
             [store EXCEPT !.fact =
                DictSet(@, r.key, SQL_UPSERT_FACT_CHANGES(RowAt(@, r.key), r.row, unk_key))],
             Tail(rows), unk_key)

\* execute_batch(cur, SQL_UPSERT_FACT_PLANNED, rows)
RECURSIVE execute_batch_planned(_, _)
execute_batch_planned(store, rows) ==
  IF rows = <<>> THEN store
  ELSE LET r == Head(rows)
       IN  execute_batch_planned(
             [store EXCEPT !.fact =
                DictSet(@, r.key, SQL_UPSERT_FACT_PLANNED(RowAt(@, r.key), r.row))],
             Tail(rows))

\* conn.close() without commit(): the open transaction's work is discarded,
\* the values the sequences handed out are not given back
rollback(committed, store) ==
  [committed EXCEPT !.train_seq = store.train_seq, !.station_seq = store.station_seq]

-----------------------------------------------------------------------------
(* The locals of a run and the helpers of the two flows.  m is the pair of  *)
(* the store as the cursor sees it and the locals; an exception raised is   *)
(* kept in the locals and every later step of the function is skipped.      *)

NoLocals ==
  [pc |-> "start", exc |-> None,
   station_key_by_eva |-> EmptyDict, name_to_eva |-> EmptyDict,
   time_cache |-> {}, train_cache |-> EmptyDict, unknown_train_key |-> None,
   todo |-> <<>>, snapshot_str |-> None, snap_key |-> None, files |-> <<>>,
   rows |-> <<>>,
   snap_count |-> 0, xml_count |-> 0, upserted |-> 0, skipped_station |-> 0,
   bad_xml |-> 0,
   seen |-> <<>>, pending |-> 0, executed |-> <<>>]

Raised(m, e) == [m EXCEPT !.run.exc = Some(e)]
Failing(m) == m.run.exc # None

\* Three fields are kept for reference only: seen, what happened to each file
\* so far ("bad_xml", "skipped", "read"), pending, the number of rows
\* executed since the last commit, and executed, the rows handed to
\* execute_batch so far, in the order they were executed.
Saw(m, what) == [m EXCEPT !.run.seen = Append(@, what)]

upsert_time(m, dt) ==
  LET k == time_key(dt)
  IN  IF k \in m.run.time_cache THEN m
      ELSE [m EXCEPT !.db = SQL_UPSERT_TIME(@, k), !.run.time_cache = @ \cup {k}]

\* the reserved 5-tuple of the unknown train
unk_tuple == <<"UNK", "UNK", "", "", "">>

ensure_unknown_train(m) ==
  LET store == SQL_UPSERT_TRAIN(m.db, unk_tuple)
  IN  [m EXCEPT !.db = store,
                !.run.unknown_train_key = Some(SQL_SELECT_TRAIN_KEY(store, unk_tuple))]

\* a <tl> element's attributes; each of c, n, o, t, f is absent or a string,
\* x stands for any other attribute.  No <tl> element gives the empty dict.
NoTl == [c |-> None, n |-> None, o |-> None, t |-> None, f |-> None, x |-> None]

\* not tl
IsEmptyTl(tl) == \A a \in DOMAIN tl : tl[a] = None

\* tl.get(a) or default
GetOr(tl, a, default) ==
  IF IsSet(tl[a]) /\ Val(tl[a]) # "" THEN Val(tl[a]) ELSE default

TrainTuple(tl) ==
  <<GetOr(tl, "c", "UNK"), GetOr(tl, "n", "UNK"), GetOr(tl, "o", ""),
    GetOr(tl, "t", ""), GetOr(tl, "f", "")>>

\* the cache lookup, the insert-if-absent and the select of get_train_key;
\* the result is the key returned and what the call left behind
ResolveTrain(m, key) ==
  IF key \in DOMAIN m.run.train_cache
  THEN [train_key |-> m.run.train_cache[key], m |-> m]
  ELSE LET store == SQL_UPSERT_TRAIN(m.db, key)
           train_key == SQL_SELECT_TRAIN_KEY(store, key)
       IN  [train_key |-> train_key,
            m |-> [m EXCEPT !.db = store,
                            !.run.train_cache = DictSet(@, key, train_key)]]

\* ingest_changes.get_train_key without the shortcut for an empty descriptor
changes_get_train_key_NoShortcut(m, tl) == ResolveTrain(m, TrainTuple(tl))

\* ingest_changes.get_train_key
changes_get_train_key(m, tl) ==
  IF IsEmptyTl(tl) THEN [train_key |-> Val(m.run.unknown_train_key), m |-> m]
  ELSE ResolveTrain(m, TrainTuple(tl))

\* ingest_timetables.get_train_key
timetables_get_train_key(m, tl) == ResolveTrain(m, TrainTuple(tl))

NaturalKey(snap_key, station_key, stop_id, etype) ==
  [snapshot_time_key |-> snap_key, station_key |-> station_key,
   stop_id |-> stop_id, event_type |-> etype]

\* the flush of the change flow with the list left as it is
changes_flush_NoClear(m) ==
  [m EXCEPT !.db = execute_batch_changes(@, m.run.rows, Val(m.run.unknown_train_key)),
            !.run.upserted = @ + Len(m.run.rows),
            !.run.pending = @ + Len(m.run.rows),
            !.run.executed = @ \o m.run.rows]

\* the flush of the change flow, inside the loop and after it
changes_flush(m) ==
  [m EXCEPT !.db = execute_batch_changes(@, m.run.rows, Val(m.run.unknown_train_key)),
            !.run.upserted = @ + Len(m.run.rows),
            !.run.pending = @ + Len(m.run.rows),
            !.run.executed = @ \o m.run.rows,
            !.run.rows = <<>>]

\* the flush of the planned flow inside the loop
timetables_flush(m) ==
  [m EXCEPT !.db = execute_batch_planned(@, m.run.rows),
            !.run.upserted = @ + Len(m.run.rows),
            !.run.pending = @ + Len(m.run.rows),
            !.run.executed = @ \o m.run.rows,
            !.run.rows = <<>>]

\* the flush of the planned flow after the loop: the list is not cleared
timetables_flush_last(m) ==
  [m EXCEPT !.db = execute_batch_planned(@, m.run.rows),
            !.run.upserted = @ + Len(m.run.rows),
            !.run.pending = @ + Len(m.run.rows),
            !.run.executed = @ \o m.run.rows]

\* one <ar>/<dp> element in the change flow
changes_event(m, station_key, train_key, stop_id, etype, ev, batch_size) ==
  LET pt_key == safe_timekey_from_attr(ev.pt)
      ct_key == safe_timekey_from_attr(ev.ct)
  IN  IF ~Returned(pt_key) THEN Raised(m, pt_key.val)
      ELSE IF ~Returned(ct_key) THEN Raised(m, ct_key.val)
      ELSE
        LET m1 == IF IsSet(pt_key.val)
                  THEN upsert_time(m, strptime_key(Val(pt_key.val)).val) ELSE m
            m2 == IF IsSet(ct_key.val)
                  THEN upsert_time(m1, strptime_key(Val(ct_key.val)).val) ELSE m1
            built == ChangesRow(train_key, ev)
        IN  IF ~Returned(built) THEN Raised(m2, built.val)
            ELSE
              LET m3 == [m2 EXCEPT !.run.rows =
                           Append(@, [key |-> NaturalKey(Val(m.run.snap_key), station_key,
                                                         stop_id, etype),
                                      row |-> built.val])]
              IN  IF Len(m3.run.rows) >= batch_size THEN changes_flush(m3) ELSE m3

\* one <ar>/<dp> element in the planned flow
timetables_event(m, station_key, train_key, stop_id, etype, ev, batch_size) ==
  LET pt_dt == IF IsSet(ev.pt) /\ Len(Val(ev.pt)) > 0
               THEN parse_yymmddhhmm(Val(ev.pt)) ELSE Return(None)
  IN  IF ~Returned(pt_dt) THEN Raised(m, pt_dt.val)
      ELSE
        LET m1 == IF pt_dt.val = None THEN m ELSE upsert_time(m, pt_dt.val)
            built == PlannedRow(train_key, ev)
            m2 == [m1 EXCEPT !.run.rows =
                     Append(@, [key |-> NaturalKey(Val(m.run.snap_key), station_key,
                                                   stop_id, etype),
                                row |-> built.val])]
        IN  IF Len(m2.run.rows) >= batch_size THEN timetables_flush(m2) ELSE m2

\* the body of "for s in root.findall('s')": the train of the stop, then its
\* arrival and its departure
changes_stop(m, station_key, s, batch_size) ==
  LET got == changes_get_train_key(m, s.tl)
      m_ar == IF IsSet(s.ar)
              THEN changes_event(got.m, station_key, got.train_key, s.id, "A",
                                 Val(s.ar), batch_size)
              ELSE got.m
  IN  IF Failing(m_ar) \/ ~IsSet(s.dp) THEN m_ar
      ELSE changes_event(m_ar, station_key, got.train_key, s.id, "D",
                         Val(s.dp), batch_size)

timetables_stop(m, station_key, s, batch_size) ==
  LET got == timetables_get_train_key(m, s.tl)
      m_ar == IF IsSet(s.ar)
              THEN timetables_event(got.m, station_key, got.train_key, s.id, "A",
                                    Val(s.ar), batch_size)
              ELSE got.m
  IN  IF Failing(m_ar) \/ ~IsSet(s.dp) THEN m_ar
      ELSE timetables_event(m_ar, station_key, got.train_key, s.id, "D",
                            Val(s.dp), batch_size)

RECURSIVE changes_stops(_, _, _, _)
changes_stops(m, station_key, stops, batch_size) ==
  IF stops = <<>> \/ Failing(m) THEN m
  ELSE changes_stops(changes_stop(m, station_key, Head(stops), batch_size),
                     station_key, Tail(stops), batch_size)

RECURSIVE timetables_stops(_, _, _, _)
timetables_stops(m, station_key, stops, batch_size) ==
  IF stops = <<>> \/ Failing(m) THEN m
  ELSE timetables_stops(timetables_stop(m, station_key, Head(stops), batch_size),
                        station_key, Tail(stops), batch_size)

\* a file whose station cannot be resolved: counted, nothing else
SkipStation_Uncounted(m) == Saw(m, "skipped")

\* the same branch as one that registers a station for the file it skips
SkipStation_Registers(m) ==
  Saw([m EXCEPT !.run.skipped_station = @ + 1,
                !.db = SQL_UPSERT_STATION(@, 8099999,
                         [name |-> N_Hauptbahnhof, lat |-> None, lon |-> None])],
      "skipped")

SkipStation(m) == Saw([m EXCEPT !.run.skipped_station = @ + 1], "skipped")

\* the body of "for _, fp in iter_xml_files(snapshot_path)" in ingest_changes
changes_file(m, f, batch_size) ==
  LET m0 == [m EXCEPT !.run.xml_count = @ + 1]
      parsed == ET_parse(f.node)
  IN  IF ~Returned(parsed) THEN Saw([m0 EXCEPT !.run.bad_xml = @ + 1], "bad_xml")
      ELSE
        LET eva_attr == parsed.val.root.eva
        IN  IF ~IsSet(eva_attr) \/ Len(Val(eva_attr)) = 0 \/ ~isdigit(Val(eva_attr))
            THEN SkipStation(m0)
            ELSE
              LET station_key == DictGet(m0.run.station_key_by_eva, int(Val(eva_attr)).val)
              IN  IF station_key = None THEN SkipStation(m0)
                  ELSE Saw(changes_stops(m0, Val(station_key), parsed.val.stops,
                                         batch_size), "read")

\* the body of "for fn, fp in iter_xml_files(snapshot_path)" in
\* ingest_timetables; a file that does not parse is passed over uncounted
timetables_file(m, f, batch_size) ==
  LET m0 == [m EXCEPT !.run.xml_count = @ + 1]
      parsed == ET_parse(f.node)
  IN  IF ~Returned(parsed) THEN Saw(m0, "bad_xml")
      ELSE
        LET station_name == station_from_root_or_filename(parsed.val.root, f.fn)
            eva == ResolveName(m0.run.name_to_eva, station_name)
        IN  IF eva = None THEN SkipStation(m0)
            ELSE
              LET station_key == DictGet(m0.run.station_key_by_eva, Val(eva))
              IN  IF station_key = None THEN SkipStation(m0)
                  ELSE Saw(timetables_stops(m0, Val(station_key), parsed.val.stops,
                                            batch_size), "read")

-----------------------------------------------------------------------------
(* SpecRun: one run of ingest_changes or of ingest_timetables from main()  *)

\* the batch sizes tried: 1 .. MaxBatch
MaxBatch == 2
BatchSizes == 1..MaxBatch

\* station_data.json of every run
StationJson ==
  << [name |-> N_BerlinHauptbahnhof,
      evaNumbers |-> <<[number |-> 8011160, isMain |-> TRUE,
                        coordinates |-> Some(<<13, 52>>)]>>] >>

\* eva_to_station.items(): the stations in the order their numbers were
\* first inserted into the dict
RECURSIVE items(_, _, _)
items(eva_to_station, result, done) ==
  IF result = <<>> THEN <<>>
  ELSE LET s == Head(result)
           eva == IF Len(s.evaNumbers) = 0 THEN None
                  ELSE Some(MainEva(s.evaNumbers).number)
       IN  IF eva = None \/ Val(eva) \in done
           THEN items(eva_to_station, Tail(result), done)
           ELSE <<[eva |-> Val(eva), st |-> eva_to_station[Val(eva)]]>>
                  \o items(eva_to_station, Tail(result), done \cup {Val(eva)})

\* execute_batch(cur, SQL_UPSERT_STATION, station_rows)
RECURSIVE execute_batch_station(_, _)
execute_batch_station(store, station_rows) ==
  IF station_rows = <<>> THEN store
  ELSE execute_batch_station(
         SQL_UPSERT_STATION(store, Head(station_rows).eva, Head(station_rows).st),
         Tail(station_rows))

\* the store a run starts from: the change flow expects dim_station loaded,
\* the planned flow loads it
StationMaps == build_station_maps(StationJson)

LoadedStore ==
  execute_batch_station(EmptyStore, items(StationMaps.eva_to_station, StationJson, {}))

InitialStore(flow) == IF flow = "changes" THEN LoadedStore ELSE EmptyStore

TL_ICE ==
  [c |-> Some("ICE"), n |-> Some("1001"), o |-> Some("80"), t |-> Some("p"),
   f |-> None, x |-> None]
TL_RE ==
  [c |-> Some("RE"), n |-> Some(""), o |-> None, t |-> None, f |-> None,
   x |-> Some("1")]

Stop(id, tl, ar, dp) == [id |-> id, tl |-> tl, ar |-> ar, dp |-> dp]
Xml(eva, station, stops) ==
  [wellformed |-> TRUE, root |-> [eva |-> eva, station |-> station], stops |-> stops]

\* an element whose delta is "--5", and one whose planned time is cut short
EventBadDelta == [Event(1, 1) EXCEPT !.dc = Some(<<"-", "-", "5">>)]
EventBadTime == [Event(1, 0) EXCEPT !.pt = Some(<<"2", "5", "0", "9">>)]

E_8011160 == <<"8", "0", "1", "1", "1", "6", "0">>
E_8099999 == <<"8", "0", "9", "9", "9", "9", "9">>
E_80x == <<"8", "0", "x">>

\* the files of the change flow: one that is not XML, three whose station
\* cannot be resolved, three of the station of the catalog
ChangeFiles ==
  { NoXml,
    Xml(None, Some(N_BerlinHauptbahnhof),
        <<Stop("stop-1", TL_ICE, Some(Event(1, 1)), None)>>),
    Xml(Some(E_80x), None, <<Stop("stop-1", TL_ICE, Some(Event(1, 1)), None)>>),
    Xml(Some(E_8099999), None, <<Stop("stop-1", TL_ICE, Some(Event(1, 1)), None)>>),
    Xml(Some(E_8011160), None, <<Stop("stop-1", TL_ICE, Some(Event(1, 1)), None)>>),
    Xml(Some(E_8011160), None,
        <<Stop("stop-1", NoTl, Some(Event(2, 2)), Some(Event(0, 3))),
          Stop("stop-2", TL_RE, None, Some(Event(1, 0)))>>),
    Xml(Some(E_8011160), None,
        <<Stop("stop-1", TL_ICE, Some(Event(1, 1)), Some(EventBadDelta))>>) }

\* the files of the planned flow: one that is not XML, one of a station the
\* catalog does not have, one that names its station, one that leaves it to
\* the file name, one with a planned time that is not a time
TimetableFiles ==
  { NoXml,
    Xml(None, Some(L_Spandau), <<Stop("stop-1", TL_ICE, Some(Event(1, 0)), None)>>),
    Xml(None, Some(N_Hauptbahnhof),
        <<Stop("stop-1", TL_ICE, Some(Event(1, 0)), Some(Event(1, 0)))>>),
    Xml(None, None,
        <<Stop("stop-1", NoTl, Some(Event(2, 0)), Some(Event(0, 0))),
          Stop("stop-2", TL_RE, None, Some(Event(1, 0)))>>),
    Xml(None, Some(N_Hauptbahnhof),
        <<Stop("stop-1", TL_ICE, Some(Event(1, 0)), Some(EventBadTime))>>) }

\* the file of the snapshot folder inside the wrapper folder
WrappedFile ==
  Xml(None, Some(N_Hauptbahnhof),
      <<Stop("stop-1", TL_ICE, Some(Event(1, 0)), Some(Event(1, 0)))>>)

FN_1 == <<"b", "e", "r", "l", "i", "n", "_", "h", "a", "u", "p", "t", "b", "a", "h", "n", "h", "o", "f", "_", "t", "i", "m", "e", "t", "a", "b", "l", "e", ".", "x", "m", "l">>
FN_2 == <<"s", "p", "a", "n", "d", "a", "u", "_", "T", "i", "m", "e", "t", "a", "b", "l", "e", ".", "X", "M", "L">>
FileNames == {FN_1, FN_2}
log_txt == <<"l", "o", "g", ".", "t", "x", "t">>
notes_txt == <<"n", "o", "t", "e", "s", ".", "t", "x", "t">>

SN_1 == <<"2", "5", "0", "9", "0", "2", "1", "2", "0", "0">>
SN_2 == <<"2", "5", "0", "9", "0", "2", "1", "2", "1", "5">>
week == <<"w", "e", "e", "k">>

\* every dict with keys among K and values in V
DictsOver(K, V) == UNION { [S -> V] : S \in SUBSET K }

\* a snapshot folder holds a log and, under each file name, no file or one
\* of the sample files
SnapshotDirs(xmls, names) ==
  { Dir(d @@ (log_txt :> File(NoXml))) :
      d \in DictsOver(names, { File(x) : x \in xmls }) }

\* the week folder of the change flow: a note, possibly the earlier snapshot
\* folder with up to two files, possibly the later one with up to one
ChangesWeekDirs ==
  { Dir(a @@ b @@ (notes_txt :> File(NoXml))) :
      a \in DictsOver({SN_1}, SnapshotDirs(ChangeFiles, FileNames)),
      b \in DictsOver({SN_2}, SnapshotDirs(ChangeFiles, {FN_1})) }

\* the week folder of the planned flow: a note, possibly the earlier snapshot
\* folder with up to one file, possibly the later one with up to two, and
\* possibly a wrapper folder that holds one more snapshot folder
Wrappers ==
  {EmptyDict} \cup
  { (week :> Dir(SN_1 :> s)) : s \in SnapshotDirs({WrappedFile}, {FN_1}) }

TimetablesWeekDirs ==
  { Dir(a @@ b @@ w @@ (notes_txt :> File(NoXml))) :
      a \in DictsOver({SN_1}, SnapshotDirs(TimetableFiles, {FN_1})),
      b \in DictsOver({SN_2}, SnapshotDirs(TimetableFiles, FileNames)),
      w \in Wrappers }

RunInputs ==
  { [flow |-> "changes", week_dir |-> w, batch_size |-> b] :
      w \in ChangesWeekDirs, b \in BatchSizes }
  \cup
  { [flow |-> "timetables", week_dir |-> w, batch_size |-> b] :
      w \in TimetablesWeekDirs, b \in BatchSizes }

InitRun ==
  /\ \E i \in RunInputs : fsys = i
  /\ db = InitialStore(fsys.flow)
  /\ cdb = db
  /\ run = NoLocals
  /\ fact = IdleFact
  /\ last = IdleLast
  /\ rp = IdleRp
  /\ sm = IdleSm
  /\ lk = IdleLk
  /\ dq = IdleDq
  /\ dres = IdleDres

Running == run.pc \in {"start", "snapshots", "files"}

\* What a step leaves behind.  An exception leaves ingest_* and reaches
\* main(), whose finally closes the connection.
Leave(m) ==
  LET durable == IF autocommit THEN m.db ELSE cdb
  IN  /\ cdb' = durable
      /\ IF Failing(m)
         THEN /\ run' = [m.run EXCEPT !.pc = "failed"]
              /\ db' = rollback(durable, m.db)
         ELSE /\ run' = m.run
              /\ db' = m.db

\* cur.connection.commit()
Commit(m) ==
  /\ cdb' = m.db
  /\ db' = m.db
  /\ run' = [m.run EXCEPT !.pending = 0]

\* ingest_changes up to its loop
changes_start(m) ==
  LET m1 == [m EXCEPT !.run.station_key_by_eva = SELECT_station_keys(m.db)]
      m2 == ensure_unknown_train(m1)
  IN  [m2 EXCEPT !.run.todo = changes_iter_snapshot_dirs(fsys.week_dir),
                 !.run.pc = "snapshots"]

\* ingest_timetables up to its loop
timetables_start(m) ==
  LET maps == StationMaps
      station_rows == items(maps.eva_to_station, StationJson, {})
      store == execute_batch_station(m.db, station_rows)
  IN  [m EXCEPT !.db = store,
                !.run.name_to_eva = maps.name_to_eva,
                !.run.station_key_by_eva = SELECT_station_keys(store),
                !.run.todo = timetables_iter_snapshot_dirs(fsys.week_dir),
                !.run.pc = "snapshots"]

\* the head of the loop over the snapshot folders
begin_snapshot(m) ==
  LET snap == Head(m.run.todo)
      snap_dt == parse_yymmddhhmm(snap.name)
  IN  IF ~Returned(snap_dt) THEN Raised(m, snap_dt.val)
      ELSE [upsert_time(m, snap_dt.val) EXCEPT
              !.run.snapshot_str = Some(snap.name),
              !.run.snap_key = Some(time_key(snap_dt.val)),
              !.run.rows = <<>>,
              !.run.files = iter_xml_files(snap.dir),
              !.run.todo = Tail(m.run.todo),
              !.run.pc = "files"]

\* one file of the snapshot
read_file(m, flow, batch_size) ==
  LET f == Head(m.run.files)
      after == IF flow = "changes" THEN changes_file(m, f, batch_size)
               ELSE timetables_file(m, f, batch_size)
  IN  [after EXCEPT !.run.files = Tail(m.run.files)]

\* after the last file: the rows still buffered, then the commit
end_snapshot(m, flow) ==
  LET flushed == IF m.run.rows = <<>> THEN m
                 ELSE IF flow = "changes" THEN changes_flush(m)
                 ELSE timetables_flush_last(m)
  IN  [flushed EXCEPT !.run.snap_count = @ + 1, !.run.pc = "snapshots"]

ChangesStart ==
  /\ fsys.flow = "changes" /\ run.pc = "start"
  /\ Leave(changes_start([db |-> db, run |-> run]))
  /\ UNCHANGED <<fsys, fact, last, rp, sm, lk, dq, dres>>

TimetablesStart ==
  /\ fsys.flow = "timetables" /\ run.pc = "start"
  /\ Leave(timetables_start([db |-> db, run |-> run]))
  /\ UNCHANGED <<fsys, fact, last, rp, sm, lk, dq, dres>>

BeginSnapshot ==
  /\ run.pc = "snapshots" /\ run.todo # <<>>
  /\ Leave(begin_snapshot([db |-> db, run |-> run]))
  /\ UNCHANGED <<fsys, fact, last, rp, sm, lk, dq, dres>>

ReadFile ==
  /\ run.pc = "files" /\ run.files # <<>>
  /\ Leave(read_file([db |-> db, run |-> run], fsys.flow, fsys.batch_size))
  /\ UNCHANGED <<fsys, fact, last, rp, sm, lk, dq, dres>>

EndSnapshot ==
  /\ run.pc = "files" /\ run.files = <<>>
  /\ Commit(end_snapshot([db |-> db, run |-> run], fsys.flow))
  /\ UNCHANGED <<fsys, fact, last, rp, sm, lk, dq, dres>>

\* the loop is over, ingest_* returns and main() closes the connection
Finish ==
  /\ run.pc = "snapshots" /\ run.todo = <<>>
  /\ run' = [run EXCEPT !.pc = "done"]
  /\ db' = rollback(cdb, db)
  /\ UNCHANGED <<cdb, fsys, fact, last, rp, sm, lk, dq, dres>>

\* a statement, a read or the process itself fails for a reason of its
\* own: the connection is closed with the transaction open
Crash ==
  /\ Running
  /\ run' = [run EXCEPT !.pc = "failed", !.exc = Some("OperationalError")]
  /\ db' = rollback(cdb, db)
  /\ UNCHANGED <<cdb, fsys, fact, last, rp, sm, lk, dq, dres>>

NextRun ==
  \/ ChangesStart \/ TimetablesStart \/ BeginSnapshot \/ ReadFile
  \/ EndSnapshot \/ Finish \/ Crash

SpecRun == InitRun /\ [][NextRun]_vars

\* the snapshot folders in the order the run visits them
Traversal ==
  IF fsys.flow = "changes" THEN changes_iter_snapshot_dirs(fsys.week_dir)
  ELSE timetables_iter_snapshot_dirs(fsys.week_dir)

\* the catalog of a run: dim_station as loaded for the change flow,
\* station_data.json for the planned flow
RefersToCatalog(f) ==
  LET root == f.node.xml.root
  IN  IF fsys.flow = "changes"
      THEN /\ IsSet(root.eva)
           /\ isdigit(Val(root.eva))
           /\ DigitsValue(Val(root.eva)) \in DOMAIN InitialStore("changes").dim_station
      ELSE \E i \in WithEva(StationJson) :
             norm_name(station_from_root_or_filename(root, f.fn))
               \in AliasesOf(norm_name(StationJson[i].name))

\* a file that parses and whose station is not in the catalog
Unresolvable(f) ==
  f.node.kind = "file" /\ f.node.xml.wellformed /\ ~RefersToCatalog(f)

\* the number of .xml entries of the first n snapshot folders visited
RECURSIVE FilesOfFirst(_)
FilesOfFirst(n) ==
  IF n = 0 THEN 0
  ELSE FilesOfFirst(n - 1) + Len(iter_xml_files(Traversal[n].dir))

C8_WitnessPlanned ==
  /\ fsys.flow = "timetables" /\ run.pc = "done"
  /\ run.snap_count = 1
  /\ run.seen = <<"skipped", "read">>
  /\ run.skipped_station = 1
  /\ DOMAIN cdb.fact # {}

\* the batch sizes main() gives the flows when none is asked for
DefaultBatchSize(flow) == IF flow = "changes" THEN 800 ELSE 500

\* the run before its first snapshot
Started ==
  LET m == [db |-> InitialStore(fsys.flow), run |-> NoLocals]
  IN  IF fsys.flow = "changes" THEN changes_start(m) ELSE timetables_start(m)

RECURSIVE FilesInFull(_)
FilesInFull(m) ==
  IF m.run.files = <<>> \/ Failing(m) THEN m
  ELSE FilesInFull(read_file(m, fsys.flow, DefaultBatchSize(fsys.flow)))

\* the first k snapshots of order applied in full: every file of a snapshot
\* is read and all its rows are executed together
RECURSIVE AppliedInFull(_, _)
AppliedInFull(order, k) ==
  IF k = 0 THEN [Started EXCEPT !.run.todo = order]
  ELSE LET before == AppliedInFull(order, k - 1)
           opened == IF Failing(before) THEN before ELSE begin_snapshot(before)
           read == IF Failing(opened) THEN opened ELSE FilesInFull(opened)
       IN  IF Failing(read) THEN read ELSE end_snapshot(read, fsys.flow)

\* the fact rows of a store with each train given by its 5-tuple
Described(store) ==
  [k \in DOMAIN store.fact |->
     [store.fact[k] EXCEPT !.train_key =
        CHOOSE t \in DOMAIN store.dim_train : store.dim_train[t] = store.fact[k].train_key]]

\* the arrangements of the snapshot folders found that ascend by folder name
AscendingOrders ==
  LET n == Len(Traversal)
  IN  { [i \in 1..n |-> Traversal[p[i]]] :
          p \in { q \in [1..n -> 1..n] :
                    /\ \A i, j \in 1..n : i # j => q[i] # q[j]
                    /\ \A i, j \in 1..n :
                         i < j => ~StrLess(Traversal[q[j]].name, Traversal[q[i]].name) } }

\* C10 as claimed: at every point of a run, also after a failure, the
\* committed fact rows are those of some prefix of the snapshots, taken in
\* ascending folder-name order and applied in full.
C10_AscendingPrefix ==
  \E order \in AscendingOrders :
    \E k \in 0..Len(order) :
      /\ ~Failing(AppliedInFull(order, k))
      /\ Described(cdb) = Described(AppliedInFull(order, k).db)

\* C10: at every point of a run of either flow, also after a failure at any
\* step, the committed fact table is exactly what applying in full the
\* snapshots committed so far gives, and these are the first snap_count
\* folders in the order the run visits them.  So no snapshot is committed in
\* part, and none before all of its buffered rows are executed.
C10_CommittedIsVisitedPrefix ==
  /\ run.snap_count <= Len(Traversal)
  /\ cdb.fact = AppliedInFull(Traversal, run.snap_count).db.fact

\* a run that failed in its second snapshot, after rows of that snapshot
\* had been executed, with the first snapshot's rows committed
C10_Witness ==
  /\ run.pc = "failed"
  /\ run.snap_count = 1
  /\ run.pending > 0
  /\ DOMAIN cdb.fact # {}
  /\ db.fact = cdb.fact

\* a .xml entry of a snapshot folder that ET cannot parse
Unparsable(f) == ~Returned(ET_parse(f.node))

\* C17 (parse failure is skip-and-count), as claimed: in both flows the step
\* that takes a file that fails to parse adds exactly one to the
\* parse-failure counter, leaves the fact table, the buffer and the committed
\* store as they were, raises nothing and goes on to the next file of the
\* snapshot; and whenever the run stands between two snapshots it has taken
\* every file of the snapshots behind it.
C17_ParseFailureSkippedAndCounted ==
  /\ [][ (/\ run.pc = "files" /\ run.files # <<>>
          /\ Unparsable(Head(run.files))
          /\ run'.exc # Some("OperationalError"))
         => (/\ run'.pc = "files"
             /\ run'.exc = None
             /\ run'.files = Tail(run.files)
             /\ run'.bad_xml = run.bad_xml + 1
             /\ run'.rows = run.rows
             /\ db'.fact = db.fact
             /\ cdb' = cdb) ]_vars
  /\ [](run.pc \in {"snapshots", "done"}
          => /\ run.xml_count = FilesOfFirst(run.snap_count)
             /\ Len(run.seen) = run.xml_count)

\* the descriptors a stop can carry: none, two resolved ones, and one with
\* none of the five subfields (only another attribute)
TL_OtherOnly == [NoTl EXCEPT !.x = Some("1")]
SampleTls == {NoTl, TL_ICE, TL_RE, TL_OtherOnly}

\* get_train_key of the running flow
get_train_key(m, tl) ==
  IF fsys.flow = "changes" THEN changes_get_train_key(m, tl)
  ELSE timetables_get_train_key(m, tl)

\* no two 5-tuples of a train table share a key
OneKeyEach(table) ==
  \A t1, t2 \in DOMAIN table : table[t1] = table[t2] => t1 = t2

\* C19 (train identity resolution): while a run of the change flow is in its
\* loop, a call with an absent descriptor returns the key of the reserved
\* unknown-train row and leaves store and cache as they are.  In both flows,
\* at every point of a run the train dimension gives each 5-tuple one row and
\* no two 5-tuples the same key, every cache entry (until the run fails and
\* its locals are gone) is the key of the store row of its 5-tuple, and a
\* call with any descriptor changes no existing row, returns the key of the
\* row of its sentinel-completed 5-tuple, and returns it again when called
\* again; no step changes the key of a row or a cache entry.
C19_TrainIdentity ==
  /\ [](/\ OneKeyEach(db.dim_train)
        /\ OneKeyEach(cdb.dim_train)
        /\ run.pc # "failed"
             => \A t \in DOMAIN run.train_cache :
                  t \in DOMAIN db.dim_train /\ run.train_cache[t] = db.dim_train[t]
        /\ run.pc \in {"snapshots", "files"}
             => LET m == [db |-> db, run |-> run]
                IN  /\ fsys.flow = "changes"
                         => changes_get_train_key(m, NoTl)
                              = [train_key |-> db.dim_train[unk_tuple], m |-> m]
                    /\ \A tl \in SampleTls :
                         LET r == get_train_key(m, tl)
                         IN  /\ \A t \in DOMAIN db.dim_train :
                                  /\ t \in DOMAIN r.m.db.dim_train
                                  /\ r.m.db.dim_train[t] = db.dim_train[t]
                             /\ r.train_key = r.m.db.dim_train[TrainTuple(tl)]
                             /\ OneKeyEach(r.m.db.dim_train)
                             /\ get_train_key(r.m, tl).train_key = r.train_key)
  /\ [][/\ \A t \in DOMAIN db.dim_train \cap DOMAIN db'.dim_train :
             db'.dim_train[t] = db.dim_train[t]
        /\ run'.pc # "failed"
             => \A t \in DOMAIN run.train_cache :
                  /\ t \in DOMAIN run'.train_cache
                  /\ run'.train_cache[t] = run.train_cache[t]]_vars

\* a run of the change flow has resolved two different descriptors to two
\* different keys and has stored a row of a stop without descriptor under
\* the unknown train, which is not in the cache
C19_Witness ==
  /\ fsys.flow = "changes"
  /\ run.pc \in {"snapshots", "files"}
  /\ TrainTuple(TL_ICE) \in DOMAIN run.train_cache
  /\ TrainTuple(TL_RE) \in DOMAIN run.train_cache
  /\ run.train_cache[TrainTuple(TL_ICE)] # run.train_cache[TrainTuple(TL_RE)]
  /\ unk_tuple \notin DOMAIN run.train_cache
  /\ \E k \in DOMAIN db.fact : db.fact[k].train_key = Val(run.unknown_train_key)
  /\ \E k \in DOMAIN db.fact : db.fact[k].train_key = run.train_cache[TrainTuple(TL_RE)]

\* C20 (change ingestion never writes the station dimension): at every point
\* of a run of ingest_changes, failed runs and runs over files that name
\* unknown or non-numeric station ids included, the station rows the cursor
\* sees and the committed ones are the rows, with every attribute, that the
\* store held before the run.
C20_StationsUntouched ==
  fsys.flow = "changes"
    => /\ db.dim_station = InitialStore("changes").dim_station
       /\ cdb.dim_station = InitialStore("changes").dim_station
       /\ db.station_seq = InitialStore("changes").station_seq

\* a run of the change flow is over; it skipped two files for their station
\* ids, read another and committed its rows
C20_Witness ==
  /\ fsys.flow = "changes"
  /\ run.pc = "done"
  /\ run.skipped_station = 2
  /\ run.upserted > 0
  /\ DOMAIN cdb.fact # {}
  /\ DOMAIN cdb.dim_station = {8011160}
  /\ cdb.dim_station = InitialStore("changes").dim_station

\* the run as it stands after its first k snapshots when every snapshot's
\* rows are executed in one batch (the batch size main() uses by default is
\* larger than any snapshot of the model)
InOneBatch(k) == AppliedInFull(Traversal, k)

\* rows is what the last execute_batch was given, or is empty
ExecutedAlready(rows, executed) ==
  /\ Len(rows) <= Len(executed)
  /\ rows = SubSeq(executed, Len(executed) - Len(rows) + 1, Len(executed))

\* what holds of every batch size whenever the run stands between two
\* snapshots or at its end: the committed store, the counters and the order
\* of the executed rows are those of the run that executes each snapshot in
\* one batch, and nothing executed is uncommitted
SameAsInOneBatch ==
  LET ref == InOneBatch(run.snap_count)
  IN  /\ run.snap_count > 0 => cdb = ref.db
      /\ run.snap_count = 0 => cdb = InitialStore(fsys.flow)
      /\ run.upserted = ref.run.upserted
      /\ run.skipped_station = ref.run.skipped_station
      /\ run.bad_xml = ref.run.bad_xml
      /\ run.xml_count = ref.run.xml_count
      /\ run.executed = ref.run.executed
      /\ run.pending = 0

\* C12 as claimed: for every batch size, between two snapshots and at the
\* end of the run the committed store, the counters and the order in which
\* the rows were executed are those of the run that executes each snapshot
\* in one batch, and the buffer is empty at every commit.
C12_BufferEmptyAtCommit ==
  run.pc \in {"snapshots", "done"}
    => /\ SameAsInOneBatch
       /\ run.rows = <<>>

\* C12 (batch-size independence): for every batch size, between two
\* snapshots and at the end of the run the committed store, the counters and
\* the order in which the rows were executed (so the relative order of the
\* rows of each natural key) are those of the run that executes each
\* snapshot in one batch; at every commit every buffered row has been
\* executed: the buffer of the change flow is empty, the buffer of the
\* planned flow is empty or still holds the rows of its last batch.
C12_BatchSizeIndependent ==
  run.pc \in {"snapshots", "done"}
    => /\ SameAsInOneBatch
       /\ fsys.flow = "changes" => run.rows = <<>>
       /\ ExecutedAlready(run.rows, run.executed)

\* a run of the change flow with batch size 1 has committed a snapshot in
\* which two different rows of one natural key were executed in two batches
C12_Witness ==
  /\ fsys.flow = "changes"
  /\ fsys.batch_size = 1
  /\ run.pc \in {"snapshots", "done"}
  /\ run.snap_count >= 1
  /\ \E i, j \in 1..Len(run.executed) :
       /\ i < j
       /\ run.executed[i].key = run.executed[j].key
       /\ run.executed[i].row # run.executed[j].row
  /\ cdb = InOneBatch(run.snap_count).db

\* a run of the planned flow has committed a snapshot and its buffer still
\* holds the rows of the last batch
C12_WitnessPlanned ==
  /\ fsys.flow = "timetables"
  /\ run.pc = "snapshots"
  /\ run.snap_count >= 1
  /\ run.rows # <<>>
  /\ run.pending = 0

-----------------------------------------------------------------------------
(* SpecRestart: a run of ingest_changes that failed is followed by a second *)
(* run of main() over the same week folder, on the store the first run     *)
(* left committed                                                          *)

\* rp.pass is the number of the run; k and before are kept for reference:
\* the number of snapshots the first run had committed when it failed, and
\* the store it left committed
InitRestart ==
  /\ \E i \in RunInputs : i.flow = "changes" /\ fsys = i
  /\ db = InitialStore(fsys.flow)
  /\ cdb = db
  /\ run = NoLocals
  /\ rp = [pass |-> 1, k |-> 0, before |-> EmptyStore]
  /\ fact = IdleFact
  /\ last = IdleLast
  /\ sm = IdleSm
  /\ lk = IdleLk
  /\ dq = IdleDq
  /\ dres = IdleDres

\* main() is started again: a new connection on the committed store (the
\* sequences stay where the first run left them), new caches and counters
Restart ==
  /\ run.pc = "failed"
  /\ rp.pass = 1
  /\ rp' = [pass |-> 2, k |-> run.snap_count, before |-> cdb]
  /\ run' = NoLocals
  /\ UNCHANGED <<db, cdb, fsys, fact, last, sm, lk, dq, dres>>

NextRestart ==
  \/ ChangesStart \/ BeginSnapshot \/ ReadFile
  \/ EndSnapshot \/ Finish \/ Crash \/ Restart

SpecRestart == InitRestart /\ [][NextRestart]_vars

\* one uninterrupted run over the week folder
Uninterrupted == AppliedInFull(Traversal, Len(Traversal))

\* C11 (safe restart): when the second run of ingest_changes over the same
\* week folder has completed, the committed fact rows, each train given by
\* its 5-tuple, are those of one uninterrupted run from the store the first
\* run started from; and as long as the second run has committed no more
\* snapshots than the first run had committed when it failed, the committed
\* fact rows are the rows the first run left.
C11_SafeRestart ==
  rp.pass = 2
    => /\ run.pc = "done"
            => /\ ~Failing(Uninterrupted)
               /\ Described(cdb) = Described(Uninterrupted.db)
       /\ run.snap_count <= rp.k => cdb.fact = rp.before.fact

\* the first run failed inside its second snapshot with rows of it executed;
\* the second run has completed, has added the rows of that snapshot, and
\* holds a train under another key than the uninterrupted run gives it
C11_Witness ==
  /\ rp.pass = 2
  /\ run.pc = "done"
  /\ rp.k = 1
  /\ run.snap_count = 2
  /\ DOMAIN rp.before.fact # {}
  /\ DOMAIN cdb.fact # DOMAIN rp.before.fact
  /\ cdb.dim_train # Uninterrupted.db.dim_train
  /\ Described(cdb) = Described(Uninterrupted.db)

-----------------------------------------------------------------------------
(* SpecNames: norm_name applied to a label, and applied again to its result *)

\* the labels: every string of up to MaxNameLen characters over an
\* underscore, a space, a tab, an upper-case and a lower-case letter
MaxNameLen == 3
NameChars == {"_", " ", "\t", "A", "b"}
NameLabels == StringsUpTo(NameChars, MaxNameLen)

InitNames ==
  /\ RunIdle
  /\ \E x \in NameLabels : lk = [label |-> Some(x), once |-> None, twice |-> None]
  /\ sm = IdleSm
  /\ fact = IdleFact
  /\ last = IdleLast
  /\ rp = IdleRp
  /\ dq = IdleDq
  /\ dres = IdleDres

\* norm_name(station_name)
NormName ==
  /\ lk.once = None
  /\ lk' = [lk EXCEPT !.once = Some(norm_name(Val(lk.label)))]
  /\ UNCHANGED <<sm, fact, last, rp, dq, dres, fsys, db, cdb, run>>

\* norm_name applied to a name that is already normalized
NormNameAgain ==
  /\ lk.once # None
  /\ lk.twice = None
  /\ lk' = [lk EXCEPT !.twice = Some(norm_name(Val(lk.once)))]
  /\ UNCHANGED <<sm, fact, last, rp, dq, dres, fsys, db, cdb, run>>

NextNames == NormName \/ NormNameAgain

SpecNames == InitNames /\ [][NextNames]_vars

\* no leading or trailing space, no underscore, no upper-case letter and no
\* two whitespace characters in a row
Canonical(s) ==
  /\ Len(s) > 0 => (s[1] \notin Whitespace /\ s[Len(s)] \notin Whitespace)
  /\ \A i \in 1..Len(s) : s[i] # "_" /\ LowerChar(s[i]) = s[i]
  /\ \A i \in 1..(Len(s) - 1) : ~(s[i] \in Whitespace /\ s[i + 1] \in Whitespace)

\* C22 (norm_name is idempotent and canonical), as claimed: for every label,
\* labels that begin or end with an underscore included, the normalized name
\* has no leading or trailing space, no underscore, no upper-case letter and
\* no run of two or more whitespace characters, and normalizing it again
\* gives the same name.
C22_NormNameIdempotentCanonical ==
  /\ lk.once # None => Canonical(Val(lk.once))
  /\ lk.twice # None => lk.twice = lk.once

====
